---- MODULE Spec2Model ----
(***************************************************************************)
(* A model of reop.c: key generation, detached signatures, the eC          *)
(* public-key envelope, the SP symmetric envelope and the KDF wrapping of  *)
(* secret keys.                                                            *)
(*                                                                         *)
(* The libsodium primitives are modelled symbolically.  A key is a record  *)
(* naming the key pair it belongs to; a signature names the signing key    *)
(* and the signed bytes; a box is a record of the key, the nonce and the   *)
(* plaintext, and its tag is the authenticator of that box, so opening     *)
(* succeeds exactly when the key, the nonce, the tag and the ciphertext    *)
(* are the ones the box was made with.                                     *)
(***************************************************************************)
EXTENDS Integers, Sequences, FiniteSets, TLC

\* keys: the key pairs reop_generate has returned
\* art:  the artifact last produced (a signature, an envelope with its
\*       ciphertext, an encoded secret key) with what it was made from
\* last: the last call, its arguments and what it returned
\* pc:   "ready"; "returned" once a verifying, decrypting or parsing call
\*       has returned (such a call changes neither keys nor art, so going on
\*       after it reaches no state that is not reached before it);
\*       "exited" once errx() has ended the process
\* fs:   the files the commands of main() read and write, by name
VARIABLES keys, art, last, pc, fs

vars == <<keys, art, last, pc, fs>>

(* ------------------------------ bounds -------------------------------- *)

\* number of key pairs reop_generate is called for
MaxKeys == 2
\* longest message, in bytes
MaxMsgLen == 2

(* ------------------------- program constants -------------------------- *)

SIGALG == "Ed"
ENCALG == "eC"
ENCKEYALG == "CS"
SYMALG == "SP"
KDFALG == "BK"
IDENTLEN == 64
seckeysize == 172
sigsize == 74
pubkeysize == 76

REOP_V_OK == "REOP_V_OK"
REOP_V_FAIL == "REOP_V_FAIL"
REOP_V_MISMATCH == "REOP_V_MISMATCH"
REOP_D_OK == "REOP_D_OK"
REOP_D_FAIL == "REOP_D_FAIL"
REOP_D_INVALID == "REOP_D_INVALID"
REOP_D_MISMATCH == "REOP_D_MISMATCH"

(* ------------------------------ inputs -------------------------------- *)

\* values randombytes() can return for an 8 byte randomid; two key pairs
\* may draw the same one
RandomIds == {"r1", "r2"}
\* values randombytes() returns for a nonce and for a salt
Nonces == {"n1", "n2"}
Salts == {"s1", "s2"}
\* memset(.., 0, ..) of a field
Zero == "zero"


\* messages: every length up to MaxMsgLen, and two of the same length
Messages == {[i \in 1..n |-> 7] : n \in 0..MaxMsgLen} \cup {<<8>>}

\* identities given to reop_generate: plain, with a blank inside, empty
Idents == {<<"a">>, <<"a", " ", "b">>, <<>>}
PlainIdents == {<<"a">>}
OneRandomId == {"r1"}

\* a C string pointer: NULL, or a string
NULL == [null |-> TRUE, s |-> <<>>]
Str(s) == [null |-> FALSE, s |-> s]
EMPTY == <<>>
PW == <<"p", "w">>
PW2 == <<"p", "w", "2">>
PassStrings == {EMPTY, PW, PW2}
\* the password argument of an API call
PassArgs == {NULL} \cup {Str(s) : s \in PassStrings}
\* getenv("REOP_PASSPHRASE")
EnvValues == {NULL, Str(PW2)}
\* the terminal: none (readpassphrase fails), or what is typed at the
\* first and at the confirming prompt
NoTTY == [tty |-> FALSE, first |-> <<>>, second |-> <<>>]
Typed(a, b) == [tty |-> TRUE, first |-> a, second |-> b]
TtyValues == {NoTTY, Typed(EMPTY, EMPTY), Typed(PW, PW), Typed(PW, PW2)}

Min(a, b) == IF a < b THEN a ELSE b

\* the element of a set of one; { f(x) : x \in {e} } names the value of e
\* where f uses it more than once
Only(S) == CHOOSE x \in S : TRUE

(* ----------------------------- primitives ----------------------------- *)

\* crypto_sign_ed25519_keypair, crypto_box_keypair: the two halves of the
\* pair numbered id
SigPublic(id) == [t |-> "edpub", id |-> id]
SigSecret(id) == [t |-> "edsec", id |-> id]
EncPublic(id) == [t |-> "cpub", id |-> id]
EncSecret(id) == [t |-> "csec", id |-> id]

\* the key pair number of an ephemeral key: no static key has it
EphId == MaxKeys + 1

signraw(seckey, buf) == [t |-> "edsig", id |-> seckey.id, msg |-> buf]

verifyraw(pubkey, buf, sig) ==
    IF sig.id = pubkey.id /\ sig.msg = buf THEN 0 ELSE -1

\* the key pair a 32 byte Curve25519 key belongs to; any other 32 bytes
\* used as a key stand for a pair of their own
PairOf(k) == IF k.t \in {"cpub", "csec"} THEN [pair |-> k.id] ELSE [bytes |-> k]

\* crypto_box_beforenm: the key both (pk_a, sk_b) and (pk_b, sk_a) derive
Shared(pubkey, seckey) == [t |-> "dh", ids |-> {PairOf(pubkey), PairOf(seckey)}]

\* XSalsa20 of pt under (key, nonce), and Poly1305 of that ciphertext
Box(key, nonce, pt) == [t |-> "box", key |-> key, nonce |-> nonce, pt |-> pt]
Mac(key, nonce, ct) == [t |-> "mac", key |-> key, nonce |-> nonce, ct |-> ct]
ZeroTag == [t |-> "zerotag"]
\* a ciphertext or a tag with a bit flipped
Flipped(x) == [t |-> "flipped", of |-> x]
\* what the stream cipher leaves when the key or nonce is not the box's
Garbage(ct) == [t |-> "garbage", of |-> ct]

Unbox(key, nonce, ct) ==
    IF ct.t = "box" /\ ct.key = key /\ ct.nonce = nonce THEN ct.pt ELSE Garbage(ct)

\* nonce is what randombytes() returns
symencryptraw(buf, nonce, symkey) ==
    [buf |-> Box(symkey, nonce, buf), nonce |-> nonce,
     tag |-> Mac(symkey, nonce, Box(symkey, nonce, buf))]

\* crypto_secretbox_open_detached checks the tag first and leaves buf alone
\* when it is wrong
symdecryptraw(buf, nonce, tag, symkey) ==
    IF tag = Mac(symkey, nonce, buf)
    THEN [rv |-> 0, buf |-> Unbox(symkey, nonce, buf)]
    ELSE [rv |-> -1, buf |-> buf]

pubencryptraw(buf, nonce, pubkey, seckey) ==
    LET k == Shared(pubkey, seckey)
    IN  [buf |-> Box(k, nonce, buf), nonce |-> nonce,
         tag |-> Mac(k, nonce, Box(k, nonce, buf))]

\* pubdecryptraw that decrypts without looking at the tag
pubdecryptraw_noauth(buf, nonce, tag, pubkey, seckey) ==
    [rv |-> 0, buf |-> Unbox(Shared(pubkey, seckey), nonce, buf)]

pubdecryptraw(buf, nonce, tag, pubkey, seckey) ==
    LET k == Shared(pubkey, seckey)
    IN  IF tag = Mac(k, nonce, buf)
        THEN [rv |-> 0, buf |-> Unbox(k, nonce, buf)]
        ELSE [rv |-> -1, buf |-> buf]

(* -------------------------------- keys -------------------------------- *)

strlcpy(src, size) == SubSeq(src, 1, Min(Len(src), size - 1))

reop_generate(ident, id, randomid) ==
    [pubkey |-> [sigalg |-> SIGALG, encalg |-> ENCKEYALG, randomid |-> randomid,
                 sigkey |-> SigPublic(id), enckey |-> EncPublic(id),
                 ident |-> strlcpy(ident, IDENTLEN)],
     seckey |-> [sigalg |-> SIGALG, encalg |-> ENCKEYALG, symalg |-> SYMALG,
                 kdfalg |-> KDFALG, randomid |-> randomid,
                 kdfrounds |-> <<0, 0, 0, 0>>, salt |-> Zero, nonce |-> Zero,
                 tag |-> ZeroTag,
                 secret |-> [sigkey |-> SigSecret(id), enckey |-> EncSecret(id)],
                 ident |-> strlcpy(ident, IDENTLEN)]]

\* reop_sign without the memcpy of the randomid: the field keeps the zero
\* bytes of a fresh allocation
reop_sign_norandomid(seckey, msg) ==
    [sigalg |-> SIGALG, randomid |-> Zero,
     sig |-> signraw(seckey.secret.sigkey, msg),
     ident |-> strlcpy(seckey.ident, IDENTLEN)]

reop_sign(seckey, msg) ==
    [sigalg |-> SIGALG, randomid |-> seckey.randomid,
     sig |-> signraw(seckey.secret.sigkey, msg),
     ident |-> strlcpy(seckey.ident, IDENTLEN)]

\* reop_verify without the randomid comparison
reop_verify_nomismatch(pubkey, msg, sig) ==
    IF verifyraw(pubkey.sigkey, msg, sig.sig) = -1
    THEN [rv |-> REOP_V_FAIL, calls |-> <<"verifyraw">>]
    ELSE [rv |-> REOP_V_OK, calls |-> <<"verifyraw">>]

reop_verify(pubkey, msg, sig) ==
    IF pubkey.randomid # sig.randomid
    THEN [rv |-> REOP_V_MISMATCH, calls |-> <<>>]
    ELSE IF verifyraw(pubkey.sigkey, msg, sig.sig) = -1
         THEN [rv |-> REOP_V_FAIL, calls |-> <<"verifyraw">>]
         ELSE [rv |-> REOP_V_OK, calls |-> <<"verifyraw">>]

(* ------------------------- public-key envelope ----------------------- *)

\* reop_pubencrypt with the two randomids stored in each other's field
reop_pubencrypt_swappedids(pubkey, seckey, msg, nonce, ephnonce) ==
    LET body == pubencryptraw(msg, nonce, pubkey.enckey, EncSecret(EphId))
        eph == pubencryptraw(EncPublic(EphId), ephnonce, pubkey.enckey,
                             seckey.secret.enckey)
    IN  [encmsg |-> [encalg |-> ENCALG,
                     secrandomid |-> pubkey.randomid,
                     pubrandomid |-> seckey.randomid,
                     ephpubkey |-> eph.buf, ephnonce |-> eph.nonce,
                     ephtag |-> eph.tag,
                     nonce |-> body.nonce, tag |-> body.tag,
                     ident |-> strlcpy(seckey.ident, IDENTLEN)],
         msg |-> body.buf]

\* nonce and ephnonce are what randombytes() returns in the two
\* pubencryptraw calls; the ephemeral pair is EncPublic/EncSecret(EphId).
\* malloc is taken to succeed.
reop_pubencrypt(pubkey, seckey, msg, nonce, ephnonce) ==
    LET body == pubencryptraw(msg, nonce, pubkey.enckey, EncSecret(EphId))
        eph == pubencryptraw(EncPublic(EphId), ephnonce, pubkey.enckey,
                             seckey.secret.enckey)
    IN  [encmsg |-> [encalg |-> ENCALG,
                     secrandomid |-> seckey.randomid,
                     pubrandomid |-> pubkey.randomid,
                     ephpubkey |-> eph.buf, ephnonce |-> eph.nonce,
                     ephtag |-> eph.tag,
                     nonce |-> body.nonce, tag |-> body.tag,
                     ident |-> strlcpy(seckey.ident, IDENTLEN)],
         msg |-> body.buf]

\* reop_pubdecrypt with the algorithm checks made before the randomid check
reop_pubdecrypt_algfirst(encmsg, pubkey, seckey, msg) ==
    IF pubkey.encalg # ENCKEYALG
    THEN [rv |-> REOP_D_INVALID, msg |-> msg, calls |-> <<>>]
    ELSE IF seckey.encalg # ENCKEYALG
    THEN [rv |-> REOP_D_INVALID, msg |-> msg, calls |-> <<>>]
    ELSE IF encmsg.pubrandomid # seckey.randomid \/ encmsg.secrandomid # pubkey.randomid
    THEN [rv |-> REOP_D_MISMATCH, msg |-> msg, calls |-> <<>>]
    ELSE LET eph == pubdecryptraw(encmsg.ephpubkey, encmsg.ephnonce, encmsg.ephtag,
                                  pubkey.enckey, seckey.secret.enckey)
         IN  IF eph.rv # 0
             THEN [rv |-> REOP_D_FAIL, msg |-> msg, calls |-> <<"eph">>]
             ELSE LET body == pubdecryptraw(msg, encmsg.nonce, encmsg.tag,
                                            eph.buf, seckey.secret.enckey)
                  IN  IF body.rv # 0
                      THEN [rv |-> REOP_D_FAIL, msg |-> body.buf,
                            calls |-> <<"eph", "body">>]
                      ELSE [rv |-> REOP_D_OK, msg |-> body.buf,
                            calls |-> <<"eph", "body">>]

reop_pubdecrypt(encmsg, pubkey, seckey, msg) ==
    IF encmsg.pubrandomid # seckey.randomid \/ encmsg.secrandomid # pubkey.randomid
    THEN [rv |-> REOP_D_MISMATCH, msg |-> msg, calls |-> <<>>]
    ELSE IF pubkey.encalg # ENCKEYALG
    THEN [rv |-> REOP_D_INVALID, msg |-> msg, calls |-> <<>>]
    ELSE IF seckey.encalg # ENCKEYALG
    THEN [rv |-> REOP_D_INVALID, msg |-> msg, calls |-> <<>>]
    ELSE LET eph == pubdecryptraw(encmsg.ephpubkey, encmsg.ephnonce, encmsg.ephtag,
                                  pubkey.enckey, seckey.secret.enckey)
         IN  IF eph.rv # 0
             THEN [rv |-> REOP_D_FAIL, msg |-> msg, calls |-> <<"eph">>]
             ELSE LET body == pubdecryptraw(msg, encmsg.nonce, encmsg.tag,
                                            eph.buf, seckey.secret.enckey)
                  IN  IF body.rv # 0
                      THEN [rv |-> REOP_D_FAIL, msg |-> body.buf,
                            calls |-> <<"eph", "body">>]
                      ELSE [rv |-> REOP_D_OK, msg |-> body.buf,
                            calls |-> <<"eph", "body">>]

(* -------------------------------- kdf --------------------------------- *)

\* memset(key, 0, keylen)
ZeroKey == [t |-> "zerokey"]

\* bcrypt_pbkdf(3) returns -1 for an empty password and for fewer than one
\* round, and otherwise fills the key from password, salt and rounds
bcrypt_pbkdf(pass, salt, rounds) ==
    IF Len(pass) = 0 \/ rounds < 1
    THEN [rv |-> -1, key |-> ZeroKey]
    ELSE [rv |-> 0,
          key |-> [t |-> "bk", pass |-> pass, salt |-> salt, rounds |-> rounds]]

\* errx(1, ...) inside kdf
KdfExit(consulted, bcrypt) ==
    [exit |-> TRUE, key |-> ZeroKey, consulted |-> consulted, bcrypt |-> bcrypt]

KdfDerive(pass, salt, rounds, consulted) ==
    LET b == bcrypt_pbkdf(pass, salt, rounds)
    IN  IF b.rv = -1 THEN KdfExit(consulted, TRUE)
        ELSE [exit |-> FALSE, key |-> b.key, consulted |-> consulted, bcrypt |-> TRUE]

\* kdf without the early return for zero rounds
kdf_nozeroround(salt, rounds, password, confirm, env, tty) ==
    LET pw == IF password.null THEN env ELSE password
        seen == IF password.null THEN {"arg", "env"} ELSE {"arg"}
    IN  IF ~pw.null THEN KdfDerive(pw.s, salt, rounds, seen)
        ELSE IF ~tty.tty THEN KdfExit(seen \cup {"tty"}, FALSE)
        ELSE IF Len(tty.first) = 0 THEN KdfExit(seen \cup {"tty"}, FALSE)
        ELSE IF confirm /\ tty.second # tty.first
        THEN KdfExit(seen \cup {"tty"}, FALSE)
        ELSE KdfDerive(tty.first, salt, rounds, seen \cup {"tty"})

\* the result names the key, whether errx() ended the process, which
\* passphrase sources were looked at (the argument, the environment, the
\* terminal) and whether bcrypt_pbkdf was called
kdf(salt, rounds, password, confirm, env, tty) ==
    IF rounds = 0
    THEN [exit |-> FALSE, key |-> ZeroKey, consulted |-> {}, bcrypt |-> FALSE]
    ELSE LET pw == IF password.null THEN env ELSE password
             seen == IF password.null THEN {"arg", "env"} ELSE {"arg"}
         IN  IF ~pw.null THEN KdfDerive(pw.s, salt, rounds, seen)
             ELSE IF ~tty.tty THEN KdfExit(seen \cup {"tty"}, FALSE)
             ELSE IF Len(tty.first) = 0 THEN KdfExit(seen \cup {"tty"}, FALSE)
             ELSE IF confirm /\ tty.second # tty.first
             THEN KdfExit(seen \cup {"tty"}, FALSE)
             ELSE KdfDerive(tty.first, salt, rounds, seen \cup {"tty"})

\* a uint32_t as its four bytes in network order
htonl(x) ==
    <<(x \div 16777216) % 256, (x \div 65536) % 256, (x \div 256) % 256, x % 256>>
\* int rounds = ntohl(...): the four bytes read in network order, as the
\* 32 bit two's complement int the result is stored in
ntohl(b) ==
    (((IF b[1] >= 128 THEN b[1] - 256 ELSE b[1]) * 256 + b[2]) * 256 + b[3]) * 256
    + b[4]

(* ------------------------- secret key wrapping ------------------------ *)

\* encryptseckey that also takes a missing password for "no password"
encryptseckey_nullzero(seckey, password, env, tty, salt, nonce) ==
    LET rounds == IF password.null \/ Len(password.s) = 0 THEN 0 ELSE 42
        k == kdf(salt, rounds, password, TRUE, env, tty)
        e == symencryptraw(seckey.secret, nonce, k.key)
        hdr == [seckey EXCEPT !.salt = salt, !.kdfrounds = htonl(rounds)]
    IN  IF k.exit THEN [exit |-> TRUE, seckey |-> hdr, kdf |-> k]
        ELSE [exit |-> FALSE, kdf |-> k,
              seckey |-> [hdr EXCEPT !.secret = e.buf, !.nonce = e.nonce,
                                     !.tag = e.tag]]

\* salt and nonce are what randombytes() returns
encryptseckey(seckey, password, env, tty, salt, nonce) ==
    LET rounds == IF ~password.null /\ Len(password.s) = 0 THEN 0 ELSE 42
        k == kdf(salt, rounds, password, TRUE, env, tty)
        e == symencryptraw(seckey.secret, nonce, k.key)
        hdr == [seckey EXCEPT !.salt = salt, !.kdfrounds = htonl(rounds)]
    IN  IF k.exit THEN [exit |-> TRUE, seckey |-> hdr, kdf |-> k]
        ELSE [exit |-> FALSE, kdf |-> k,
              seckey |-> [hdr EXCEPT !.secret = e.buf, !.nonce = e.nonce,
                                     !.tag = e.tag]]

NoKdf == [exit |-> FALSE, key |-> ZeroKey, consulted |-> {}, bcrypt |-> FALSE]

\* decryptseckey that derives the key from the passphrase for a zero-round
\* key as for any other
decryptseckey_alwaysderive(seckey, password, env, tty) ==
    IF seckey.kdfalg # KDFALG
    THEN [exit |-> FALSE, rv |-> -2, seckey |-> seckey, kdf |-> NoKdf]
    ELSE LET stored == ntohl(seckey.kdfrounds)
             rounds == IF stored = 0 THEN 42 ELSE stored
             k == kdf(seckey.salt, rounds, password, FALSE, env, tty)
             d == symdecryptraw(seckey.secret, seckey.nonce, seckey.tag, k.key)
         IN  IF k.exit THEN [exit |-> TRUE, rv |-> -1, seckey |-> seckey, kdf |-> k]
             ELSE [exit |-> FALSE, rv |-> d.rv, kdf |-> k,
                   seckey |-> [seckey EXCEPT !.secret = d.buf]]

decryptseckey(seckey, password, env, tty) ==
    IF seckey.kdfalg # KDFALG
    THEN [exit |-> FALSE, rv |-> -2, seckey |-> seckey, kdf |-> NoKdf]
    ELSE LET rounds == ntohl(seckey.kdfrounds)
             k == kdf(seckey.salt, rounds, password, FALSE, env, tty)
             d == symdecryptraw(seckey.secret, seckey.nonce, seckey.tag, k.key)
         IN  IF k.exit THEN [exit |-> TRUE, rv |-> -1, seckey |-> seckey, kdf |-> k]
             ELSE [exit |-> FALSE, rv |-> d.rv, kdf |-> k,
                   seckey |-> [seckey EXCEPT !.secret = d.buf]]

(* ----------------------------- armored text --------------------------- *)

\* A text is a sequence of pieces: a character, a fixed marker, or the
\* base64 text of a struct (its line breaks included), which holds no blank
Ch(c) == [t |-> "ch", c |-> c]
Lit(w) == [t |-> "lit", c |-> w]
NL == Ch("\n")
IsSpace(x) == x.t = "ch" /\ x.c \in {" ", "\t", "\n"}
\* the first 63 characters of a base64 text, as one character of an ident
B64HEAD == "<base64>"

\* the bytes of a struct before its ident
Payload(key) == [f \in (DOMAIN key) \ {"ident"} |-> key[f]]

reopb64_ntop(key, keylen) == [t |-> "b64", len |-> keylen, data |-> Payload(key)]

\* decodes a text holding one base64 block and blanks; -1 for anything else
reopb64_pton(text) ==
    LET body == SelectSeq(text, LAMBDA x : ~IsSpace(x))
    IN  IF Len(body) = 1 /\ body[1].t = "b64"
        THEN [len |-> body[1].len, data |-> body[1].data]
        ELSE [len |-> -1, data |-> <<>>]

\* the least index from..Len(text) whose piece satisfies P, or 0
First(text, from, P(_)) ==
    LET S == {i \in from..Len(text) : P(text[i])}
    IN  IF S = {} THEN 0 ELSE CHOOSE i \in S : \A j \in S : i <= j

\* the 1024 byte buffers hold every key and signature: no truncation
encodekey(info, key, keylen, ident) ==
    <<Lit("-----BEGIN REOP "), Lit(info), Lit("-----"), NL, Lit("ident:")>>
    \o [i \in 1..Len(ident) |-> Ch(ident[i])]
    \o <<NL, reopb64_ntop(key, keylen), NL,
         Lit("-----END REOP "), Lit(info), Lit("-----"), NL>>

\* sscanf(buf, "ident:%63s", ident): after the literal, blanks (line breaks
\* too) are skipped and up to 63 characters are taken up to the next blank.
\* strchr(buf + 1, '\n') then finds the end of the first line.
readident(buf) ==
    LET start == First(buf, 2, LAMBDA x : ~IsSpace(x))
        stop == IF start = 0 THEN 0 ELSE First(buf, start, IsSpace)
        word == IF start = 0 THEN <<>>
                ELSE SubSeq(buf, start, IF stop = 0 THEN Len(buf) ELSE stop - 1)
        chars == [i \in 1..Len(word) |->
                     IF word[i].t = "ch" THEN word[i].c ELSE B64HEAD]
        nl == First(buf, 2, LAMBDA x : x = NL)
    IN  IF Len(buf) = 0 \/ buf[1] # Lit("ident:") \/ start = 0
        THEN [exit |-> TRUE, ident |-> <<>>, rest |-> <<>>]
        ELSE IF nl = 0 THEN [exit |-> TRUE, ident |-> <<>>, rest |-> <<>>]
        ELSE [exit |-> FALSE,
              ident |-> SubSeq(chars, 1, Min(Len(chars), IDENTLEN - 1)),
              rest |-> SubSeq(buf, nl + 1, Len(buf))]

ParseExit == [exit |-> TRUE, key |-> [ident |-> <<>>]]

\* every failure is an errx(1, ...)
parsekeydata(keydata, keytype, keylen) ==
    LET end == First(keydata, 1, LAMBDA x : x = Lit("-----END REOP "))
        cut == SubSeq(keydata, 1, end - 1)
        nl == First(cut, 1, LAMBDA x : x = NL)
        id == readident(SubSeq(cut, nl + 1, Len(cut)))
        b64 == reopb64_pton(id.rest)
    IN  IF Len(keydata) < 2 \/ keydata[1] # Lit("-----BEGIN REOP ")
           \/ keydata[2] # Lit(keytype)
        THEN ParseExit
        ELSE IF end = 0 \/ nl = 0 THEN ParseExit
        ELSE IF id.exit THEN ParseExit
        ELSE IF b64.len # keylen THEN ParseExit
        ELSE [exit |-> FALSE, key |-> b64.data @@ [ident |-> id.ident]]

\* a NULL return; xfree() has wiped the struct
NULLKEY == [null |-> TRUE]

\* reop_encodeseckey that encodes the key it was given instead of the
\* wrapped copy
reop_encodeseckey_plain(seckey, password, env, tty, salt, nonce) ==
    LET e == encryptseckey(seckey, password, env, tty, salt, nonce)
    IN  [exit |-> e.exit, kdf |-> e.kdf, copy |-> e.seckey,
         str |-> IF e.exit THEN <<>>
                 ELSE encodekey("SECRET KEY", seckey, seckeysize, seckey.ident)]

reop_encodeseckey(seckey, password, env, tty, salt, nonce) ==
    LET e == encryptseckey(seckey, password, env, tty, salt, nonce)
    IN  [exit |-> e.exit, kdf |-> e.kdf, copy |-> e.seckey,
         str |-> IF e.exit THEN <<>>
                 ELSE encodekey("SECRET KEY", e.seckey, seckeysize, seckey.ident)]

reop_parseseckey(seckeydata, password, env, tty) ==
    Only({IF p.exit THEN [exit |-> TRUE, seckey |-> NULLKEY, kdf |-> NoKdf]
          ELSE Only({IF d.exit
                     THEN [exit |-> TRUE, seckey |-> NULLKEY, kdf |-> d.kdf]
                     ELSE IF d.rv # 0
                     THEN [exit |-> FALSE, seckey |-> NULLKEY, kdf |-> d.kdf]
                     ELSE [exit |-> FALSE, seckey |-> d.seckey, kdf |-> d.kdf] :
                     d \in {decryptseckey(p.key, password, env, tty)}}) :
          p \in {parsekeydata(seckeydata, "SECRET KEY", seckeysize)}})

(* -------------------------- symmetric envelope ------------------------ *)

\* salt and nonce are what randombytes() returns; malloc is taken to succeed
reop_symencrypt(msg, password, env, tty, salt, nonce) ==
    LET rounds == 42
        k == kdf(salt, rounds, password, TRUE, env, tty)
        e == symencryptraw(msg, nonce, k.key)
    IN  IF k.exit THEN [exit |-> TRUE, kdf |-> k, msg |-> msg, symmsg |-> NULLKEY]
        ELSE [exit |-> FALSE, kdf |-> k, msg |-> e.buf,
              symmsg |-> [symalg |-> SYMALG, kdfalg |-> KDFALG,
                          kdfrounds |-> htonl(rounds), salt |-> salt,
                          nonce |-> e.nonce, tag |-> e.tag]]

\* the password parameter is not used: kdf is given NULL
reop_symdecrypt(symmsg, password, msg, env, tty) ==
    IF symmsg.kdfalg # KDFALG
    THEN [exit |-> FALSE, rv |-> REOP_D_INVALID, msg |-> msg, kdf |-> NoKdf]
    ELSE LET rounds == ntohl(symmsg.kdfrounds)
             k == kdf(symmsg.salt, rounds, NULL, FALSE, env, tty)
             d == symdecryptraw(msg, symmsg.nonce, symmsg.tag, k.key)
         IN  IF k.exit
             THEN [exit |-> TRUE, rv |-> REOP_D_FAIL, msg |-> msg, kdf |-> k]
             ELSE IF d.rv # 0
             THEN [exit |-> FALSE, rv |-> REOP_D_FAIL, msg |-> d.buf, kdf |-> k]
             ELSE [exit |-> FALSE, rv |-> REOP_D_OK, msg |-> d.buf, kdf |-> k]

(* --------------------- secret buffers at return ----------------------- *)

\* what a local buffer for key material holds when its function returns:
\* never written, still holding the key, or cleared by sodium_memzero()
Unset == "unset"
Held == "held"
Wiped == "wiped"

\* symkey[] of reop_symencrypt(), and of encryptseckey() under
\* reop_encodeseckey(): one path, which clears it; kdf() ends the process
\* before anything is derived
symencrypt_symkey(e) == IF e.exit THEN Unset ELSE Wiped
encryptseckey_symkey(e) == IF e.exit THEN Unset ELSE Wiped

\* symkey[] of reop_symdecrypt(): the return after a failed symdecryptraw()
\* comes before the sodium_memzero()
symdecrypt_symkey(r) ==
    IF r.rv = REOP_D_INVALID \/ r.exit THEN Unset
    ELSE IF r.rv # REOP_D_OK THEN Held
    ELSE Wiped

\* ephseckey[] of reop_pubencrypt()
pubencrypt_ephseckey(e) == Wiped

\* ephpubkey[] of reop_pubdecrypt(): it holds the recovered ephemeral key
\* once the first pubdecryptraw() succeeded; the return after a failed
\* second one comes before the sodium_memzero()
pubdecrypt_ephpubkey(r) ==
    IF Len(r.calls) < 2 THEN Unset
    ELSE IF r.rv # REOP_D_OK THEN Held
    ELSE Wiped

\* reop_parseseckey(): symkey[] of decryptseckey() is cleared on its one
\* path past kdf(); the struct is cleared by xfree() when NULL is returned
\* and is the caller's when it is returned
parseseckey_symkey(r) == IF r.exit THEN Unset ELSE Wiped

(* ------------------------------ actions ------------------------------- *)

\* what a call read of the environment and of the terminal: a source it
\* did not look at leaves no trace in its record
Unread == [null |-> TRUE, s |-> <<"unread">>]
EnvRead(k, env) == IF "env" \in k.consulted THEN env ELSE Unread
TtyRead(k, tty) ==
    IF "tty" \in k.consulted THEN tty
    ELSE [tty |-> FALSE, first |-> <<"unread">>, second |-> <<"unread">>]

NoArt == [kind |-> "none"]
NoCall == [op |-> "none"]

\* a name that open() finds no file for
NoFile == [exists |-> FALSE, data |-> <<>>]
File(data) == [exists |-> TRUE, data |-> data]
FileNames == {"seckey", "pubkey", "pubkeyring", "msg", "enc"}

Init ==
    /\ keys = <<>>
    /\ art = NoArt
    /\ last = NoCall
    /\ pc = "ready"
    /\ fs = [f \in FileNames |-> NoFile]

\* idents and randomids are the identities the caller may pass and the
\* values randombytes() may return
Generate(idents, randomids) ==
    /\ pc = "ready"
    /\ Len(keys) < MaxKeys
    /\ \E ident \in idents, randomid \in randomids :
          keys' = Append(keys, reop_generate(ident, Len(keys) + 1, randomid))
    /\ last' = [op |-> "reop_generate"]
    /\ UNCHANGED <<art, pc, fs>>

Sign ==
    /\ pc = "ready"
    /\ \E i \in 1..Len(keys), m \in Messages :
          /\ art' = [kind |-> "sig", sig |-> reop_sign(keys[i].seckey, m),
                     by |-> i, msg |-> m]
          /\ last' = [op |-> "reop_sign", by |-> i, msg |-> m]
    /\ UNCHANGED <<keys, pc, fs>>

Verify ==
    /\ pc = "ready"
    /\ art.kind = "sig"
    /\ \E j \in 1..Len(keys), m \in Messages :
          LET r == reop_verify(keys[j].pubkey, m, art.sig)
          IN  last' = [op |-> "reop_verify", by |-> art.by, signed |-> art.msg,
                       sig |-> art.sig, with |-> j, msg |-> m,
                       rv |-> r.rv, calls |-> r.calls]
    /\ pc' = "returned"
    /\ UNCHANGED <<keys, art, fs>>

PubEncrypt ==
    /\ pc = "ready"
    /\ \E r \in 1..Len(keys), s \in 1..Len(keys), m \in Messages,
          nonce \in Nonces, ephnonce \in Nonces :
          LET e == reop_pubencrypt(keys[r].pubkey, keys[s].seckey, m, nonce, ephnonce)
          IN  /\ art' = [kind |-> "encmsg", encmsg |-> e.encmsg, buf |-> e.msg,
                         to |-> r, from |-> s, msg |-> m]
              /\ last' = [op |-> "reop_pubencrypt", to |-> r, from |-> s, msg |-> m,
                          stack |-> pubencrypt_ephseckey(e)]
    /\ UNCHANGED <<keys, pc, fs>>

\* what reaches reop_pubdecrypt: the envelope and ciphertext as written, or
\* with one part damaged, and keys as generated or as loaded from a file
\* that names another encryption algorithm
Damage == {"none", "pubalg", "secalg", "ephtag", "tag", "body"}

PubDecrypt ==
    /\ pc = "ready"
    /\ art.kind = "encmsg"
    /\ \E p \in 1..Len(keys), q \in 1..Len(keys), d \in Damage :
          LET pubkey == IF d = "pubalg" THEN [keys[p].pubkey EXCEPT !.encalg = "XX"]
                        ELSE keys[p].pubkey
              seckey == IF d = "secalg" THEN [keys[q].seckey EXCEPT !.encalg = "XX"]
                        ELSE keys[q].seckey
              encmsg == IF d = "ephtag"
                        THEN [art.encmsg EXCEPT !.ephtag = Flipped(art.encmsg.ephtag)]
                        ELSE IF d = "tag"
                        THEN [art.encmsg EXCEPT !.tag = Flipped(art.encmsg.tag)]
                        ELSE art.encmsg
              buf == IF d = "body" THEN Flipped(art.buf) ELSE art.buf
              res == reop_pubdecrypt(encmsg, pubkey, seckey, buf)
          IN  last' = [op |-> "reop_pubdecrypt", to |-> art.to, from |-> art.from,
                       sent |-> art.msg, pub |-> p, sec |-> q, damage |-> d,
                       pubkey |-> pubkey, seckey |-> seckey, encmsg |-> encmsg,
                       given |-> buf,
                       rv |-> res.rv, msg |-> res.msg, calls |-> res.calls,
                       stack |-> pubdecrypt_ephpubkey(res)]
    /\ pc' = "returned"
    /\ UNCHANGED <<keys, art, fs>>

SymEncrypt ==
    /\ pc = "ready"
    /\ \E m \in Messages, password \in PassArgs, env \in EnvValues,
          tty \in TtyValues, salt \in Salts, nonce \in Nonces :
          LET e == reop_symencrypt(m, password, env, tty, salt, nonce)
          IN  /\ last' = [op |-> "reop_symencrypt", msg |-> m, password |-> password,
                          env |-> EnvRead(e.kdf, env), tty |-> TtyRead(e.kdf, tty),
                          exit |-> e.exit, kdf |-> e.kdf,
                          stack |-> symencrypt_symkey(e)]
              /\ IF e.exit
                 THEN pc' = "exited" /\ art' = art
                 ELSE /\ pc' = pc
                      /\ art' = [kind |-> "symmsg", symmsg |-> e.symmsg,
                                 buf |-> e.msg, msg |-> m, password |-> password]
    /\ UNCHANGED <<keys, fs>>

SymDamage == {"none", "tag", "body"}

SymDecrypt ==
    /\ pc = "ready"
    /\ art.kind = "symmsg"
    /\ \E password \in PassArgs, env \in EnvValues, tty \in TtyValues,
          d \in SymDamage :
          LET symmsg == IF d = "tag"
                        THEN [art.symmsg EXCEPT !.tag = Flipped(art.symmsg.tag)]
                        ELSE art.symmsg
              buf == IF d = "body" THEN Flipped(art.buf) ELSE art.buf
              res == reop_symdecrypt(symmsg, password, buf, env, tty)
          IN  /\ last' = [op |-> "reop_symdecrypt", sent |-> art.msg,
                          made |-> art.password, password |-> password,
                          env |-> EnvRead(res.kdf, env),
                          tty |-> TtyRead(res.kdf, tty), damage |-> d,
                          given |-> buf,
                          exit |-> res.exit, rv |-> res.rv, msg |-> res.msg,
                          kdf |-> res.kdf, stack |-> symdecrypt_symkey(res)]
              /\ pc' = IF res.exit THEN "exited" ELSE "returned"
    /\ UNCHANGED <<keys, art, fs>>

\* reop_symdecrypt() on a header whose kdfrounds is 0: the header and body
\* reop_symencrypt() made, with the rounds set to 0, or a header and body
\* made elsewhere under the key of zero rounds; either may be damaged
SymDecryptZeroRounds ==
    /\ pc = "ready"
    /\ art.kind = "symmsg"
    /\ \E password \in PassArgs, env \in EnvValues, tty \in TtyValues,
          d \in SymDamage, crafted \in BOOLEAN :
          \E e \in {IF crafted THEN symencryptraw(art.msg, art.symmsg.nonce, ZeroKey)
                     ELSE [buf |-> art.buf, nonce |-> art.symmsg.nonce,
                           tag |-> art.symmsg.tag]} :
          \E symmsg \in {[art.symmsg EXCEPT
                              !.kdfrounds = htonl(0),
                              !.tag = IF d = "tag" THEN Flipped(e.tag) ELSE e.tag]},
             buf \in {IF d = "body" THEN Flipped(e.buf) ELSE e.buf} :
          \E res \in {reop_symdecrypt(symmsg, password, buf, env, tty)} :
              /\ last' = [op |-> "symdecrypt_zero", sent |-> art.msg,
                          crafted |-> crafted, damage |-> d, symmsg |-> symmsg,
                          given |-> buf, password |-> password, env |-> env,
                          tty |-> tty, exit |-> res.exit, rv |-> res.rv,
                          msg |-> res.msg, kdf |-> res.kdf]
              /\ pc' = IF res.exit THEN "exited" ELSE "returned"
    /\ UNCHANGED <<keys, art, fs>>

EncodeSeckey ==
    /\ pc = "ready"
    /\ \E i \in 1..Len(keys), password \in PassArgs, env \in EnvValues,
          tty \in TtyValues, salt \in Salts, nonce \in Nonces :
          \E e \in {reop_encodeseckey(keys[i].seckey, password, env, tty, salt, nonce)} :
              /\ last' = [op |-> "reop_encodeseckey", of |-> i,
                          password |-> password, env |-> EnvRead(e.kdf, env),
                          tty |-> TtyRead(e.kdf, tty),
                          salt |-> salt, exit |-> e.exit, kdf |-> e.kdf,
                          copy |-> e.copy, stack |-> encryptseckey_symkey(e)]
              /\ IF e.exit
                 THEN pc' = "exited" /\ art' = art
                 ELSE /\ pc' = pc
                      /\ art' = [kind |-> "seckey", str |-> e.str, of |-> i,
                                 password |-> password]
    /\ UNCHANGED <<keys, fs>>

ParseSeckey ==
    /\ pc = "ready"
    /\ art.kind = "seckey"
    /\ \E password \in PassArgs, env \in EnvValues, tty \in TtyValues :
          \E res \in {reop_parseseckey(art.str, password, env, tty)} :
              /\ last' = [op |-> "reop_parseseckey", of |-> art.of,
                          made |-> art.password, password |-> password,
                          env |-> EnvRead(res.kdf, env),
                          tty |-> TtyRead(res.kdf, tty), exit |-> res.exit,
                          seckey |-> res.seckey, kdf |-> res.kdf,
                          stack |-> parseseckey_symkey(res)]
              /\ pc' = IF res.exit THEN "exited" ELSE "returned"
    /\ UNCHANGED <<keys, art, fs>>

(* ------------------- inputs with a foreign algorithm tag --------------- *)

\* two bytes that are none of the algorithm tags
BADALG == "XX"

\* the armored text with one field of its base64 payload overwritten
Retagged(text, field) ==
    [i \in DOMAIN text |->
        IF text[i].t = "b64"
        THEN [text[i] EXCEPT !.data = [text[i].data EXCEPT ![field] = BADALG]]
        ELSE text[i]]

\* reop_verify of a genuine signature and message with the signer's own
\* public key, the sigalg of the signature or of the key being foreign
VerifyTag ==
    /\ pc = "ready"
    /\ art.kind = "sig"
    /\ \E which \in {"sig", "pubkey"} :
          \E r \in {reop_verify(
                       IF which = "pubkey"
                       THEN [keys[art.by].pubkey EXCEPT !.sigalg = BADALG]
                       ELSE keys[art.by].pubkey,
                       art.msg,
                       IF which = "sig" THEN [art.sig EXCEPT !.sigalg = BADALG]
                       ELSE art.sig)} :
              last' = [op |-> "reop_verify", tag |-> "sigalg", in |-> which,
                       ok |-> r.rv = REOP_V_OK, crypto |-> r.calls # <<>>,
                       exit |-> FALSE]
    /\ pc' = "returned"
    /\ UNCHANGED <<keys, art, fs>>

\* reop_parseseckey of an encoded secret key, one tag of it being foreign,
\* with the password it was encoded with
ParseSeckeyTag ==
    /\ pc = "ready"
    /\ art.kind = "seckey"
    /\ \E field \in {"sigalg", "encalg", "symalg", "kdfalg"},
          env \in EnvValues, tty \in TtyValues :
          \E r \in {reop_parseseckey(Retagged(art.str, field), art.password,
                                     env, tty)} :
              /\ last' = [op |-> "reop_parseseckey", tag |-> field, in |-> "seckey",
                          ok |-> r.seckey # NULLKEY, crypto |-> r.kdf # NoKdf,
                          exit |-> r.exit]
              /\ pc' = IF r.exit THEN "exited" ELSE "returned"
    /\ UNCHANGED <<keys, art, fs>>

\* reop_symdecrypt of a header and ciphertext, one tag of the header being
\* foreign
SymDecryptTag ==
    /\ pc = "ready"
    /\ art.kind = "symmsg"
    /\ \E field \in {"symalg", "kdfalg"}, env \in EnvValues, tty \in TtyValues :
          \E r \in {reop_symdecrypt([art.symmsg EXCEPT ![field] = BADALG],
                                    art.password, art.buf, env, tty)} :
              /\ last' = [op |-> "reop_symdecrypt", tag |-> field, in |-> "symmsg",
                          ok |-> r.rv = REOP_D_OK, crypto |-> r.kdf # NoKdf,
                          exit |-> r.exit]
              /\ pc' = IF r.exit THEN "exited" ELSE "returned"
    /\ UNCHANGED <<keys, art, fs>>

(* ------------------------ malformed armored text ----------------------- *)

reop_encodepubkey(pubkey) == encodekey("PUBLIC KEY", pubkey, pubkeysize, pubkey.ident)

reop_parsepubkey(pubkeydata) == parsekeydata(pubkeydata, "PUBLIC KEY", pubkeysize)

reop_parsesig(sigdata) == parsekeydata(sigdata, "SIGNATURE", sigsize)

reop_encodesig(sig) == encodekey("SIGNATURE", sig, sigsize, sig.ident)

\* an armored text as encoded, or without its BEGIN line, its END line or
\* its ident line, with a character that is not base64 for its payload,
\* or with a payload one byte longer
TextDamage == {"none", "nobegin", "noend", "noident", "badb64", "size"}

Damaged(text, d) ==
    CASE d = "none" -> text
      [] d = "nobegin" -> SubSeq(text, 2, Len(text))
      [] d = "noend" -> SelectSeq(text, LAMBDA x : x # Lit("-----END REOP "))
      [] d = "noident" -> SelectSeq(text, LAMBDA x : x # Lit("ident:"))
      [] d = "badb64" ->
            [i \in DOMAIN text |-> IF text[i].t = "b64" THEN Ch("!") ELSE text[i]]
      [] d = "size" ->
            [i \in DOMAIN text |->
                IF text[i].t = "b64" THEN [text[i] EXCEPT !.len = @ + 1]
                ELSE text[i]]

ParsePubkey ==
    /\ pc = "ready"
    /\ \E i \in 1..Len(keys), d \in TextDamage :
          \E r \in {reop_parsepubkey(Damaged(reop_encodepubkey(keys[i].pubkey), d))} :
              /\ last' = [op |-> "reop_parsepubkey", of |-> i, damage |-> d,
                          encoded |-> keys[i].pubkey, exit |-> r.exit,
                          key |-> r.key]
              /\ pc' = IF r.exit THEN "exited" ELSE "returned"
    /\ UNCHANGED <<keys, art, fs>>

ParseSig ==
    /\ pc = "ready"
    /\ art.kind = "sig"
    /\ \E d \in TextDamage :
          \E r \in {reop_parsesig(Damaged(reop_encodesig(art.sig), d))} :
              /\ last' = [op |-> "reop_parsesig", of |-> art.by, damage |-> d,
                          encoded |-> art.sig, exit |-> r.exit, key |-> r.key]
              /\ pc' = IF r.exit THEN "exited" ELSE "returned"
    /\ UNCHANGED <<keys, art, fs>>

\* reop_parseseckey of a malformed text with the password it was encoded
\* with
ParseSeckeyText ==
    /\ pc = "ready"
    /\ art.kind = "seckey"
    /\ \E d \in TextDamage, env \in EnvValues, tty \in TtyValues :
          \E r \in {reop_parseseckey(Damaged(art.str, d), art.password, env, tty)} :
              /\ last' = [op |-> "reop_parseseckey", of |-> art.of, damage |-> d,
                          encoded |-> keys[art.of].seckey, exit |-> r.exit,
                          key |-> r.seckey]
              /\ pc' = IF r.exit THEN "exited" ELSE "returned"
    /\ UNCHANGED <<keys, art, fs>>

(* ------------------------- the generate command ----------------------- *)

\* main(): -n gives the empty password, otherwise there is none
CmdPasswords == {NULL, Str(EMPTY)}

\* where write() returns -1: after so many pieces of the text, or nowhere
NoWriteError == -1
WriteErrors == {NoWriteError, 0, 6}

\* writeall() onto an open file: the text is appended; err() ends the
\* process where write() fails
writeall(file, buf, error) ==
    IF error = NoWriteError \/ error >= Len(buf)
    THEN [exit |-> FALSE, file |-> File(file.data \o buf)]
    ELSE [exit |-> TRUE, file |-> File(file.data \o SubSeq(buf, 1, error))]

\* xopenorfail(.., O_CREAT|O_EXCL|O_WRONLY, ..): err() if the file exists
CreateExcl(files, name) ==
    IF files[name].exists THEN [exit |-> TRUE, fs |-> files]
    ELSE [exit |-> FALSE, fs |-> [files EXCEPT ![name] = File(<<>>)]]

\* xopenorfail(.., O_CREAT|O_TRUNC|O_WRONLY, ..)
CreateTrunc(files, name) == [files EXCEPT ![name] = File(<<>>)]

\* the public key half of generate(), after the secret key file is closed
generate_pubkey(files, pubkey, error) ==
    LET o == CreateExcl(files, "pubkey")
        w == writeall(o.fs["pubkey"], reop_encodepubkey(pubkey), error)
    IN  IF o.exit THEN [exit |-> TRUE, fs |-> files]
        ELSE [exit |-> w.exit, fs |-> [o.fs EXCEPT !["pubkey"] = w.file]]

\* generate(): the files after the command, whether it ended in err() or
\* errx(), and the text reop_encodeseckey returned
generate(files, keypair, password, env, tty, salt, nonce, error) ==
    LET o == CreateExcl(files, "seckey")
        e == reop_encodeseckey(keypair.seckey, password, env, tty, salt, nonce)
        w == writeall(o.fs["seckey"], e.str, error)
        written == [o.fs EXCEPT !["seckey"] = w.file]
        p == generate_pubkey(written, keypair.pubkey, NoWriteError)
    IN  IF o.exit
        THEN [exit |-> TRUE, created |-> FALSE, fs |-> files, kdf |-> NoKdf,
              keydata |-> <<>>]
        ELSE IF e.exit
        THEN [exit |-> TRUE, created |-> TRUE, fs |-> o.fs, kdf |-> e.kdf,
              keydata |-> <<>>]
        ELSE IF w.exit
        THEN [exit |-> TRUE, created |-> TRUE, fs |-> written, kdf |-> e.kdf,
              keydata |-> e.str]
        ELSE [exit |-> p.exit, created |-> TRUE, fs |-> p.fs, kdf |-> e.kdf,
              keydata |-> e.str]

\* reop -G: one run of the program; the next command is another process
GenerateCmd(idents, randomids, passwords, salts, nonces, errors) ==
    /\ pc = "ready"
    /\ Len(keys) < MaxKeys
    /\ \E ident \in idents, randomid \in randomids, password \in passwords,
          env \in EnvValues, tty \in TtyValues, salt \in salts, nonce \in nonces,
          error \in errors :
          \E keypair \in {reop_generate(ident, Len(keys) + 1, randomid)} :
          \E g \in {generate(fs, keypair, password, env, tty, salt, nonce, error)} :
              /\ keys' = Append(keys, keypair)
              /\ fs' = g.fs
              /\ last' = [op |-> "generate", of |-> Len(keys) + 1,
                          password |-> password, env |-> EnvRead(g.kdf, env),
                          tty |-> TtyRead(g.kdf, tty), exit |-> g.exit,
                          created |-> g.created, kdf |-> g.kdf,
                          keydata |-> g.keydata]
    /\ UNCHANGED <<art, pc>>

\* rm: the user removes the key files
RemoveKeys ==
    /\ pc = "ready"
    /\ fs["seckey"].exists
    /\ fs' = [fs EXCEPT !["seckey"] = NoFile, !["pubkey"] = NoFile]
    /\ last' = [op |-> "rm"]
    /\ UNCHANGED <<keys, art, pc>>

(* ------------------------- encrypted message files --------------------- *)

OLDENCALG == "CS"
OLDEKCALG == "eS"
symmsgsize == 64
encmsgsize == 130
oldencmsgsize == 58
oldekcmsgsize == 82

\* the first two bytes of the header union
Alg(hdr) ==
    IF "symalg" \in DOMAIN hdr THEN hdr.symalg
    ELSE IF "encalg" \in DOMAIN hdr THEN hdr.encalg
    ELSE IF "ekcalg" \in DOMAIN hdr THEN hdr.ekcalg
    ELSE BADALG

\* the pieces of a binary file: the magic, a run of raw bytes holding a
\* struct or a ciphertext, a 32 bit length
REOP_BINARY == [t |-> "lit", c |-> "RBF"]
Raw(data, len) == [t |-> "raw", len |-> len, data |-> data]
U32(x) == [t |-> "u32", bytes |-> htonl(x)]
Chars(str) == [i \in 1..Len(str) |-> Ch(str[i])]

BEGINMSG == Lit("-----BEGIN REOP ENCRYPTED MESSAGE-----\n")
BEGINDATA == Lit("-----BEGIN REOP ENCRYPTED MESSAGE DATA-----\n")
ENDMSG == Lit("-----END REOP ENCRYPTED MESSAGE-----\n")

\* writeb64data(): the lines of the base64 text, nothing for the empty text
\* (the piece of length 0 marks where the empty ciphertext is)
writeb64data(b64) == IF b64.len = 0 THEN <<b64>> ELSE <<b64, NL>>

\* writeencfile that leaves the length of the identity out of the binary
\* file
writeencfile_nolength(hdr, hdrlen, ident, msg, msglen, binary) ==
    IF binary
    THEN <<REOP_BINARY, Raw(Payload(hdr), hdrlen)>> \o Chars(ident)
         \o <<Raw(msg, msglen)>>
    ELSE <<BEGINMSG, Lit("ident:")>> \o Chars(ident) \o <<NL>>
         \o writeb64data(reopb64_ntop(hdr, hdrlen))
         \o <<BEGINDATA>>
         \o writeb64data([t |-> "b64", len |-> msglen, data |-> msg])
         \o <<ENDMSG>>

\* the contents of the file writeencfile() writes
writeencfile(hdr, hdrlen, ident, msg, msglen, binary) ==
    IF binary
    THEN <<REOP_BINARY, Raw(Payload(hdr), hdrlen), U32(Len(ident))>>
         \o Chars(ident) \o <<Raw(msg, msglen)>>
    ELSE <<BEGINMSG, Lit("ident:")>> \o Chars(ident) \o <<NL>>
         \o writeb64data(reopb64_ntop(hdr, hdrlen))
         \o <<BEGINDATA>>
         \o writeb64data([t |-> "b64", len |-> msglen, data |-> msg])
         \o <<ENDMSG>>

HdrSize(alg) ==
    CASE alg = SYMALG -> symmsgsize
      [] alg = ENCALG -> encmsgsize
      [] alg = OLDENCALG -> oldencmsgsize
      [] alg = OLDEKCALG -> oldekcmsgsize
      [] OTHER -> -1

Unparsed == [fail |-> TRUE, exit |-> FALSE, hdr |-> [none |-> TRUE], hdrsize |-> -1,
             ident |-> <<>>, msg |-> [t |-> "none"], msglen |-> 0]

\* decrypt(): the binary branch.  The header is as long as its tag says;
\* a file that ends before the header, the length or the identity does is
\* rejected, and what follows the identity is the ciphertext.
parsebinary(data) ==
    LET hdrsize == IF data[2].t = "raw" THEN HdrSize(Alg(data[2].data)) ELSE -1
        identlen == IF Len(data) >= 3 /\ data[3].t = "u32" THEN ntohl(data[3].bytes)
                    ELSE -1
        id == SubSeq(data, 4, 3 + identlen)
        rest == SubSeq(data, 4 + identlen, Len(data))
    IN  IF hdrsize = -1 \/ data[2].len < hdrsize THEN Unparsed
        ELSE IF identlen < 0 \/ identlen >= IDENTLEN THEN Unparsed
        ELSE IF Len(data) < 3 + identlen \/ \E i \in 1..Len(id) : id[i].t # "ch"
        THEN Unparsed
        ELSE [fail |-> FALSE, exit |-> FALSE, hdr |-> data[2].data,
              hdrsize |-> hdrsize, ident |-> [i \in 1..Len(id) |-> id[i].c],
              msg |-> IF Len(rest) = 1 /\ rest[1].t = "raw" THEN rest[1].data
                      ELSE [t |-> "none"],
              msglen |-> IF Len(rest) = 1 /\ rest[1].t = "raw" THEN rest[1].len
                         ELSE 0]

\* decrypt(): the armored branch; readident() may end the process.  The
\* header is decoded into the union, which is as large as its largest
\* member, and a text that decodes to more is refused by reopb64_pton().
parsearmored_body(id, datapos, endpos) ==
    Only({IF datapos = 0 THEN Unparsed
          ELSE IF hdr.len = -1 \/ hdr.len > encmsgsize THEN Unparsed
          ELSE IF endpos = 0 THEN Unparsed
          ELSE IF msg.len = -1 THEN Unparsed
          ELSE [fail |-> FALSE, exit |-> FALSE, hdr |-> hdr.data,
                hdrsize |-> hdr.len, ident |-> id.ident, msg |-> msg.data,
                msglen |-> msg.len] :
          hdr \in {reopb64_pton(SubSeq(id.rest, 1, datapos - 1))},
          msg \in {reopb64_pton(SubSeq(id.rest, datapos + 1, endpos - 1))}})

parsearmored(data) ==
    IF Len(data) = 0 \/ data[1] # BEGINMSG THEN Unparsed
    ELSE Only({IF id.exit THEN [Unparsed EXCEPT !.exit = TRUE]
               ELSE Only({parsearmored_body(id, datapos,
                              First(id.rest, datapos + 1, LAMBDA x : x = ENDMSG)) :
                          datapos \in {First(id.rest, 1,
                                             LAMBDA x : x = BEGINDATA)}}) :
               id \in {readident(SubSeq(data, 2, Len(data)))}})

\* encdatalen >= 6 && memcmp(encdata, REOP_BINARY, 4) == 0
parseencfile(data) ==
    IF Len(data) >= 2 /\ data[1] = REOP_BINARY THEN parsebinary(data)
    ELSE parsearmored(data)

(* ------------------------------ key lookup ---------------------------- *)

\* no file name given on the command line
NoName == ""

NoKey == [exit |-> FALSE, null |-> TRUE, key |-> NULLKEY]
KeyExit == [exit |-> TRUE, null |-> TRUE, key |-> NULLKEY]

\* findpubkey(): the key ring is read block by block; blank lines between
\* blocks are skipped; the ident line of every block goes through
\* readident(), which ends the process when it finds no ident
RECURSIVE findpubkey(_, _)
findpubkey(ring, ident) ==
    IF Len(ring) = 0 THEN NoKey
    ELSE IF ring[1] = NL THEN findpubkey(Tail(ring), ident)
    ELSE IF Len(ring) < 5 \/ SubSeq(ring, 1, 4) #
               <<Lit("-----BEGIN REOP "), Lit("PUBLIC KEY"), Lit("-----"), NL>>
    THEN NoKey
    ELSE LET nl == First(ring, 5, LAMBDA x : x = NL)
             end == First(ring, 5, LAMBDA x : x = Lit("-----END REOP "))
             id == readident(SubSeq(ring, 5, nl))
             b64 == reopb64_pton(SubSeq(ring, nl + 1, end - 1))
         IN  IF nl = 0 THEN NoKey
             ELSE IF id.exit THEN KeyExit
             ELSE IF end = 0 \/ Len(ring) < end + 3 THEN NoKey
             ELSE IF id.ident # ident
             THEN findpubkey(SubSeq(ring, end + 4, Len(ring)), ident)
             ELSE IF b64.len # pubkeysize THEN NoKey
             ELSE [exit |-> FALSE, null |-> FALSE,
                   key |-> b64.data @@ [ident |-> id.ident]]

\* what reop_getpubkey() and reop_getseckey() make of the parsed key
GotPubkey(p) ==
    IF p.exit THEN KeyExit ELSE [exit |-> FALSE, null |-> FALSE, key |-> p.key]
GotSeckey(p) ==
    IF p.exit THEN KeyExit
    ELSE [exit |-> FALSE, null |-> p.seckey = NULLKEY, key |-> p.seckey]

\* reop_getpubkey(): by ident in the key ring when no file is named
reop_getpubkey(files, pubkeyfile, ident) ==
    IF pubkeyfile = NoName
    THEN IF files["pubkeyring"].exists THEN findpubkey(files["pubkeyring"].data, ident)
         ELSE NoKey
    ELSE IF ~files[pubkeyfile].exists THEN NoKey
    ELSE GotPubkey(reop_parsepubkey(files[pubkeyfile].data))

reop_getseckey(files, seckeyfile, password, env, tty) ==
    IF ~files[seckeyfile].exists THEN NoKey
    ELSE GotSeckey(reop_parseseckey(files[seckeyfile].data, password, env, tty))

(* --------------------------- the decrypt command ---------------------- *)

\* where decrypt() stops: at an err()/errx(), named by what failed, or at
\* its return ("done")
Stopped(files, stage) ==
    [exit |-> TRUE, stage |-> stage, opened |-> FALSE, fs |-> files, plain |-> <<>>]

\* the end of decrypt(): the message file is opened, truncated and written
Output(files, msg, error) ==
    LET w == writeall(File(<<>>), msg, error)
    IN  [exit |-> w.exit, stage |-> IF w.exit THEN "write" ELSE "done",
         opened |-> TRUE, fs |-> [files EXCEPT !["msg"] = w.file], plain |-> msg]

\* what decrypt() does with the result of reop_symdecrypt()
decrypt_SP_result(files, r, error) ==
    IF r.exit THEN Stopped(files, "passphrase")
    ELSE IF r.rv = REOP_D_INVALID THEN Stopped(files, "format")
    ELSE IF r.rv # REOP_D_OK THEN Stopped(files, "auth")
    ELSE Output(files, r.msg, error)

decrypt_SP(files, p, env, tty, error) ==
    IF p.hdrsize # symmsgsize THEN Stopped(files, "parse")
    ELSE decrypt_SP_result(files, reop_symdecrypt(p.hdr, NULL, p.msg, env, tty), error)

\* what decrypt() does with the result of reop_pubdecrypt()
decrypt_eC_result(files, r, error) ==
    IF r.rv = REOP_D_MISMATCH THEN Stopped(files, "mismatch")
    ELSE IF r.rv = REOP_D_INVALID THEN Stopped(files, "format")
    ELSE IF r.rv # REOP_D_OK THEN Stopped(files, "auth")
    ELSE Output(files, r.msg, error)

decrypt_eC_keys(files, p, pubkey, seckey, error) ==
    decrypt_eC_result(files, reop_pubdecrypt(p.hdr, pubkey, seckey, p.msg), error)

\* pub/sec pairs work both ways
decrypt_CS_keys(files, p, pubkey, seckey, error) ==
    LET r == pubdecryptraw(p.msg, p.hdr.nonce, p.hdr.tag, pubkey.enckey,
                           seckey.secret.enckey)
    IN  IF p.hdr.pubrandomid = pubkey.randomid /\ p.hdr.secrandomid # seckey.randomid
        THEN Stopped(files, "mismatch")
        ELSE IF p.hdr.pubrandomid # pubkey.randomid
                /\ p.hdr.pubrandomid # seckey.randomid
        THEN Stopped(files, "mismatch")
        ELSE IF pubkey.encalg # ENCKEYALG \/ seckey.encalg # ENCKEYALG
        THEN Stopped(files, "format")
        ELSE IF r.rv # 0 THEN Stopped(files, "auth")
        ELSE Output(files, r.buf, error)

decrypt_eS_keys(files, p, seckey, error) ==
    LET r == pubdecryptraw(p.msg, p.hdr.nonce, p.hdr.tag, p.hdr.pubkey,
                           seckey.secret.enckey)
    IN  IF p.hdr.pubrandomid # seckey.randomid THEN Stopped(files, "mismatch")
        ELSE IF r.rv # 0 THEN Stopped(files, "auth")
        ELSE Output(files, r.buf, error)

\* decrypt() that loads the keys before it looks at the size of the header
decrypt_loaded_keysfirst(files, p, alg, pub, sec, error) ==
    IF alg # OLDEKCALG /\ (pub.exit \/ pub.null) THEN Stopped(files, "pubkey")
    ELSE IF sec.exit \/ sec.null THEN Stopped(files, "seckey")
    ELSE IF p.hdrsize # HdrSize(alg) THEN Stopped(files, "parse")
    ELSE IF alg = ENCALG THEN decrypt_eC_keys(files, p, pub.key, sec.key, error)
    ELSE IF alg = OLDENCALG THEN decrypt_CS_keys(files, p, pub.key, sec.key, error)
    ELSE decrypt_eS_keys(files, p, sec.key, error)

\* the variants that load keys: the size of the header is checked, then
\* the public key is loaded (not for eS), then the secret key
decrypt_loaded(files, p, alg, pub, sec, error) ==
    IF p.hdrsize # HdrSize(alg) THEN Stopped(files, "parse")
    ELSE IF alg # OLDEKCALG /\ (pub.exit \/ pub.null) THEN Stopped(files, "pubkey")
    ELSE IF sec.exit \/ sec.null THEN Stopped(files, "seckey")
    ELSE IF alg = ENCALG THEN decrypt_eC_keys(files, p, pub.key, sec.key, error)
    ELSE IF alg = OLDENCALG THEN decrypt_CS_keys(files, p, pub.key, sec.key, error)
    ELSE decrypt_eS_keys(files, p, sec.key, error)

decrypt_pub(files, p, alg, pubkeyfile, env, tty, error) ==
    Only({decrypt_loaded(files, p, alg, pub, sec, error) :
          pub \in {IF alg = OLDEKCALG THEN NoKey
                   ELSE reop_getpubkey(files, pubkeyfile, p.ident)},
          sec \in {reop_getseckey(files, "seckey", NULL, env, tty)}})

\* hdr.alg as decrypt() reads it: the union is a local variable that
\* nothing has initialized, so a header of fewer than two bytes leaves
\* there what the stack held
HdrAlg(p, stack) == IF p.hdrsize >= 2 THEN Alg(p.hdr) ELSE stack

\* what the stack may hold where hdr.alg is: one of the tags, or not
StackAlgs == {SYMALG, ENCALG, OLDENCALG, OLDEKCALG, BADALG}
NoTagOnStack == {BADALG}

decrypt_parsed(files, p, pubkeyfile, env, tty, error, stack) ==
    IF p.exit \/ p.fail THEN Stopped(files, "parse")
    ELSE IF HdrAlg(p, stack) = SYMALG THEN decrypt_SP(files, p, env, tty, error)
    ELSE IF HdrAlg(p, stack) \in {ENCALG, OLDENCALG, OLDEKCALG}
    THEN decrypt_pub(files, p, HdrAlg(p, stack), pubkeyfile, env, tty, error)
    ELSE Stopped(files, "parse")

\* decrypt() with the message file opened before anything else is done
decrypt_openfirst(files, pubkeyfile, env, tty, error, stack) ==
    Only({IF r.opened THEN r
          ELSE [r EXCEPT !.opened = TRUE, !.fs = CreateTrunc(files, "msg")] :
          r \in {IF ~files["enc"].exists THEN Stopped(files, "read")
                 ELSE decrypt_parsed(files, parseencfile(files["enc"].data),
                                     pubkeyfile, env, tty, error, stack)}})

\* decrypt(): seckeyfile is "seckey", msgfile "msg", encfile "enc"
decrypt(files, pubkeyfile, env, tty, error, stack) ==
    IF ~files["enc"].exists THEN Stopped(files, "read")
    ELSE Only({decrypt_parsed(files, p, pubkeyfile, env, tty, error, stack) :
               p \in {parseencfile(files["enc"].data)}})

(* --------------------------- the encrypt commands --------------------- *)

\* the identity symencrypt() writes: a word without blanks
SYMIDENT == <<"<symmetric>">>

Variants == {SYMALG, ENCALG, OLDENCALG, OLDEKCALG}

NotWritten == [exit |-> TRUE, written |-> FALSE, hdr |-> [none |-> TRUE],
               hdrlen |-> 0, ident |-> <<>>, msg |-> [t |-> "none"]]
Written(hdr, hdrlen, ident, msg) ==
    [exit |-> FALSE, written |-> TRUE, hdr |-> hdr, hdrlen |-> hdrlen,
     ident |-> ident, msg |-> msg]

\* symencrypt(): the header, identity and ciphertext handed to writeencfile()
symencrypt_result(e) ==
    IF e.exit THEN NotWritten ELSE Written(e.symmsg, symmsgsize, SYMIDENT, e.msg)

symencrypt(files, env, tty, salt, nonce) ==
    IF ~files["msg"].exists THEN NotWritten
    ELSE symencrypt_result(reop_symencrypt(files["msg"].data, NULL, env, tty,
                                           salt, nonce))

pubencrypt_result(e) == Written(e.encmsg, encmsgsize, e.encmsg.ident, e.msg)

pubencrypt_keys(msg, pubkey, seckey, nonce, ephnonce) ==
    IF pubkey.encalg # ENCKEYALG \/ seckey.encalg # ENCKEYALG THEN NotWritten
    ELSE pubencrypt_result(reop_pubencrypt(pubkey, seckey, msg, nonce, ephnonce))

v1pubencrypt_keys(msg, pubkey, seckey, nonce) ==
    LET e == pubencryptraw(msg, nonce, pubkey.enckey, seckey.secret.enckey)
    IN  IF pubkey.encalg # ENCKEYALG \/ seckey.encalg # ENCKEYALG THEN NotWritten
        ELSE Written([encalg |-> OLDENCALG, secrandomid |-> seckey.randomid,
                      pubrandomid |-> pubkey.randomid, nonce |-> e.nonce,
                      tag |-> e.tag],
                     oldencmsgsize, seckey.ident, e.buf)

\* what decrypt() takes for the eS variant, which this program no longer
\* writes: the ephemeral public key in the clear, the body boxed for the
\* recipient under the ephemeral secret key
ekcencrypt_keys(msg, pubkey, seckey, nonce) ==
    LET e == pubencryptraw(msg, nonce, pubkey.enckey, EncSecret(EphId))
    IN  Written([ekcalg |-> OLDEKCALG, pubrandomid |-> pubkey.randomid,
                 pubkey |-> EncPublic(EphId), nonce |-> e.nonce, tag |-> e.tag],
                oldekcmsgsize, seckey.ident, e.buf)

\* pubencrypt() and v1pubencrypt(): the message and both keys are loaded
\* first; the recipient's key comes from the file given with -p
pubencrypt_loaded(files, alg, pub, sec, nonce, ephnonce) ==
    IF ~files["msg"].exists THEN NotWritten
    ELSE IF pub.exit \/ pub.null \/ sec.exit \/ sec.null THEN NotWritten
    ELSE IF alg = ENCALG
    THEN pubencrypt_keys(files["msg"].data, pub.key, sec.key, nonce, ephnonce)
    ELSE IF alg = OLDENCALG
    THEN v1pubencrypt_keys(files["msg"].data, pub.key, sec.key, nonce)
    ELSE ekcencrypt_keys(files["msg"].data, pub.key, sec.key, nonce)

pubencrypt(files, alg, env, tty, nonce, ephnonce) ==
    Only({pubencrypt_loaded(files, alg, pub, sec, nonce, ephnonce) :
          pub \in {reop_getpubkey(files, "pubkey", <<>>)},
          sec \in {reop_getseckey(files, "seckey", NULL, env, tty)}})

encrypt(files, alg, env, tty, salt, nonce, ephnonce) ==
    IF alg = SYMALG THEN symencrypt(files, env, tty, salt, nonce)
    ELSE pubencrypt(files, alg, env, tty, nonce, ephnonce)

\* the user writes a message file
WriteMsg(messages) ==
    /\ pc = "ready"
    /\ \E m \in messages : fs' = [fs EXCEPT !["msg"] = File(m)]
    /\ last' = [op |-> "write"]
    /\ UNCHANGED <<keys, art, pc>>

\* cat pubkey >> pubkeyring, for a public key file that is whole
AddToKeyring ==
    /\ pc = "ready"
    /\ fs["pubkey"].exists
    /\ Len(fs["pubkey"].data) > 0
    /\ Len(fs["pubkeyring"].data) < 2 * Len(fs["pubkey"].data)
    /\ fs' = [fs EXCEPT !["pubkeyring"] = File(@.data \o fs["pubkey"].data)]
    /\ last' = [op |-> "cat"]
    /\ UNCHANGED <<keys, art, pc>>

\* reop -E [-1] [-b]: one run of an encrypt command (or of the program that
\* wrote eS files), leaving the file and what it was made from
EncryptCmd(variants, ttys, salts, nonces) ==
    /\ pc = "ready"
    /\ \E alg \in variants, binary \in BOOLEAN, env \in EnvValues, tty \in ttys,
          salt \in salts, nonce \in nonces :
          \E e \in {encrypt(fs, alg, env, tty, salt, nonce, nonce)} :
              /\ last' = [op |-> "encrypt", alg |-> alg, binary |-> binary,
                          exit |-> e.exit]
              /\ IF e.written
                 THEN /\ fs' = [fs EXCEPT !["enc"] =
                                   File(writeencfile(e.hdr, e.hdrlen, e.ident, e.msg,
                                                     Len(fs["msg"].data), binary))]
                      /\ art' = [kind |-> "encfile", alg |-> alg, binary |-> binary,
                                 hdr |-> e.hdr, hdrlen |-> e.hdrlen,
                                 ident |-> e.ident, ct |-> e.msg,
                                 msg |-> fs["msg"].data]
                 ELSE UNCHANGED <<fs, art>>
    /\ UNCHANGED <<keys, pc>>

\* the encrypted file is as the encrypt command left it
Intact ==
    /\ art.kind = "encfile"
    /\ fs["enc"].exists
    /\ fs["enc"].data = writeencfile(art.hdr, art.hdrlen, art.ident, art.ct,
                                     Len(art.msg), art.binary)

\* the encrypted file is cut short after its header, or a bit of the tag
\* in its header is flipped
EncDamage == {"cut", "tag"}

FlipTag(piece) ==
    IF piece.t \in {"raw", "b64"} /\ "tag" \in DOMAIN piece.data
    THEN [piece EXCEPT !.data = [piece.data EXCEPT !.tag = Flipped(@)]]
    ELSE piece

CorruptEnc ==
    /\ pc = "ready"
    /\ fs["enc"].exists
    /\ art.kind = "encfile"
    /\ fs["enc"].data = writeencfile(art.hdr, art.hdrlen, art.ident, art.ct,
                                     Len(art.msg), art.binary)
    /\ \E d \in EncDamage :
          fs' = [fs EXCEPT !["enc"] =
                    File(IF d = "cut" THEN SubSeq(@.data, 1, 2)
                         ELSE [i \in DOMAIN @.data |-> FlipTag(@.data[i])])]
    /\ last' = [op |-> "corrupt"]
    /\ UNCHANGED <<keys, art, pc>>

\* an encrypted file from elsewhere: the file the encrypt command wrote,
\* with another tag in its header or, when armored, a header text that
\* decodes to another number of bytes.  Left out are the headers a variant
\* takes for its own: a known tag with the size of its variant.
HeaderLens == {0, 1, symmsgsize, encmsgsize, oldencmsgsize, oldekcmsgsize,
               encmsgsize + 1}

TagField(hdr) ==
    IF "symalg" \in DOMAIN hdr THEN "symalg"
    ELSE IF "encalg" \in DOMAIN hdr THEN "encalg"
    ELSE "ekcalg"

Forged(piece, tag, len) ==
    [piece EXCEPT !.len = len, !.data = [@ EXCEPT ![TagField(@)] = tag]]

ForgeHeader ==
    /\ pc = "ready"
    /\ Intact
    /\ \E tag \in StackAlgs, len \in HeaderLens :
          /\ len # HdrSize(tag)
          /\ art.binary => (tag = BADALG /\ len = art.hdrlen)
          /\ \E at \in {First(fs["enc"].data, 1, LAMBDA x : x.t \in {"b64", "raw"})} :
                fs' = [fs EXCEPT !["enc"] =
                          File([@.data EXCEPT ![at] = Forged(@, tag, len)])]
          /\ art' = [kind |-> "forged", tag |-> tag, len |-> len,
                     binary |-> art.binary]
    /\ last' = [op |-> "forge"]
    /\ UNCHANGED <<keys, pc>>

\* cp: the user puts the public key file of a correspondent, one of the
\* key pairs made so far, where -p names it
InstallPubkey ==
    /\ pc = "ready"
    /\ \E k \in 1..Len(keys) :
          /\ fs["pubkey"] # File(reop_encodepubkey(keys[k].pubkey))
          /\ fs' = [fs EXCEPT !["pubkey"] = File(reop_encodepubkey(keys[k].pubkey))]
    /\ last' = [op |-> "cp"]
    /\ UNCHANGED <<keys, art, pc>>

\* reop -D: one run of the decrypt command; pubkeyfiles are the -p
\* arguments tried, stacks what the stack may hold when decrypt() is entered
DecryptCmd(pubkeyfiles, ttys, errors, stacks) ==
    /\ pc = "ready"
    /\ \E pubkeyfile \in pubkeyfiles, env \in EnvValues, tty \in ttys,
          error \in errors, stack \in stacks :
          \E r \in {decrypt(fs, pubkeyfile, env, tty, error, stack)} :
              /\ fs' = r.fs
              /\ last' = [op |-> "decrypt", pubkeyfile |-> pubkeyfile, env |-> env,
                          tty |-> tty, exit |-> r.exit, stage |-> r.stage,
                          opened |-> r.opened, plain |-> r.plain, hdralg |-> stack]
    /\ UNCHANGED <<keys, art, pc>>

(* ----------------------- embedded signed messages --------------------- *)

\* the runs of characters that make up the line -----BEGIN REOP SIGNATURE-----
MarkerWords == {"-----BEGIN REOP ", "SIGNATURE", "-----"}

\* the bytes of a string as pieces of a text, and back: a run of
\* characters that is part of a marker is the same piece whoever wrote it
Text(str) ==
    [i \in 1..Len(str) |-> IF str[i] \in MarkerWords THEN Lit(str[i]) ELSE Ch(str[i])]
Untext(text) ==
    [i \in 1..Len(text) |-> IF "c" \in DOMAIN text[i] THEN text[i].c ELSE B64HEAD]

\* 36 characters
BEGINSIGNED == Lit("-----BEGIN REOP SIGNED MESSAGE-----\n")
beginsig == <<Lit("-----BEGIN REOP "), Lit("SIGNATURE"), Lit("-----"), NL>>
ENDSIGNED == <<Lit("-----END REOP "), Lit("SIGNED MESSAGE"), Lit("-----"), NL>>

\* messages to sign: empty, plain, a line equal to the signature opener
\* alone, inside, twice, and the opener without its line break at the end
OpenerLine == <<"-----BEGIN REOP ", "SIGNATURE", "-----", "\n">>
EmbMessages ==
    {<<>>, <<"m">>, OpenerLine, <<"m", "\n">> \o OpenerLine \o <<"m">>,
     OpenerLine \o OpenerLine, <<"m", "-----BEGIN REOP ", "SIGNATURE", "-----">>}

\* identities handed to writesignedmsg beside those of the keys: one that
\* ends in the text of the opener, one with a line break inside
OpenerIdent == <<"x", "-----BEGIN REOP ", "SIGNATURE", "-----">>
BrokenIdent == <<"x", "\n", "y">>

\* the contents of the file writesignedmsg() writes
writesignedmsg(sig, ident, msg) ==
    <<BEGINSIGNED>> \o Text(msg) \o beginsig \o <<Lit("ident:")>> \o Text(ident)
    \o <<NL>> \o writeb64data(reopb64_ntop(sig, sigsize)) \o ENDSIGNED

\* the places from..Len(text) where needle starts in text
Occurrences(text, from, needle) ==
    {i \in from..(Len(text) - Len(needle) + 1) :
        SubSeq(text, i, i + Len(needle) - 1) = needle}

\* strstr(msg, beginsig), then strstr(sigdata + 1, beginsig) until NULL:
\* the last place where the opener starts, 0 when there is none
LastSig(text) ==
    Only({IF S = {} THEN 0 ELSE CHOOSE i \in S : \A j \in S : j <= i :
          S \in {Occurrences(text, 2, beginsig)}})

\* the first place where the opener starts, 0 when there is none
FirstSig(text) ==
    Only({IF S = {} THEN 0 ELSE CHOOSE i \in S : \A j \in S : i <= j :
          S \in {Occurrences(text, 2, beginsig)}})

EmbExit(stage, at) ==
    [exit |-> TRUE, stage |-> stage, sigat |-> at, msg |-> <<>>, rv |-> REOP_V_FAIL]

\* verifyembedded() once the signature block at sigat is parsed and the
\* public key is loaded
verifyembedded_parsed(msgdata, sigat, sig, pubkey) ==
    IF sig.exit THEN EmbExit("parse", sigat)
    ELSE IF pubkey.exit \/ pubkey.null THEN EmbExit("pubkey", sigat)
    ELSE Only({[exit |-> rv # REOP_V_OK, stage |-> "verify", sigat |-> sigat,
                msg |-> Untext(SubSeq(msgdata, 2, sigat - 1)), rv |-> rv] :
               rv \in {reop_verify(pubkey.key,
                                   Untext(SubSeq(msgdata, 2, sigat - 1)),
                                   sig.key).rv}})

verifyembedded_at(msgdata, sigat, pubkey) ==
    IF Len(msgdata) = 0 \/ msgdata[1] # BEGINSIGNED THEN EmbExit("format", 0)
    ELSE IF sigat = 0 THEN EmbExit("format", 0)
    ELSE Only({verifyembedded_parsed(msgdata, sigat, sig, pubkey) :
               sig \in {reop_parsesig(SubSeq(msgdata, sigat, Len(msgdata)))}})

\* verifyembedded() that takes the first signature opener in the file
verifyembedded_firstsig(msgdata, pubkey) ==
    verifyembedded_at(msgdata, FirstSig(msgdata), pubkey)

\* verifyembedded(): msgdata is what the file holds, pubkey what
\* reop_getpubkey() gives for the file named with -p
verifyembedded(msgdata, pubkey) ==
    verifyembedded_at(msgdata, LastSig(msgdata), pubkey)

\* the secret key as reop_getseckey() loads it from the file generate -n
\* wrote for it
LoadedSeckey(seckey) ==
    reop_parseseckey(reop_encodeseckey(seckey, Str(EMPTY), NULL, NoTTY,
                                       "s1", "n1").str,
                     NULL, NULL, NoTTY).seckey

\* the public key as reop_getpubkey() loads it from its file
LoadedPubkey(pubkey) == GotPubkey(reop_parsepubkey(reop_encodepubkey(pubkey)))

\* reop -S -x: signfile() with the key loaded from its file; or
\* writesignedmsg() given a signature and any of the identities
SignEmbedded ==
    /\ pc = "ready"
    /\ \E i \in 1..Len(keys), m \in EmbMessages, command \in BOOLEAN :
          \E seckey \in {IF command THEN LoadedSeckey(keys[i].seckey)
                          ELSE keys[i].seckey} :
          \E sig \in {reop_sign(seckey, m)} :
          \E ident \in IF command THEN {sig.ident}
                        ELSE {sig.ident, OpenerIdent, BrokenIdent} :
              /\ art' = [kind |-> "signedmsg", by |-> i, msg |-> m,
                         command |-> command, ident |-> ident,
                         file |-> writesignedmsg(sig, ident, m)]
              /\ last' = [op |-> "signfile", by |-> i, command |-> command]
    /\ UNCHANGED <<keys, pc, fs>>

\* reop -V -x -p: verifyembedded() on the file written last
VerifyEmbedded ==
    /\ pc = "ready"
    /\ art.kind = "signedmsg"
    /\ \E p \in 1..Len(keys) :
          \E r \in {verifyembedded(art.file, LoadedPubkey(keys[p].pubkey))} :
              last' = [op |-> "verifyembedded", by |-> art.by, pub |-> p,
                       signed |-> art.msg, ident |-> art.ident,
                       command |-> art.command, exit |-> r.exit,
                       stage |-> r.stage, sigat |-> r.sigat, msg |-> r.msg,
                       rv |-> r.rv]
    /\ UNCHANGED <<keys, art, pc, fs>>

(* ------------------------------- readall ------------------------------ *)

\* 1UL << 30
maxmsgsize == 1073741824
\* 64 * 1024 - 1: the first buffer for what is not a regular file
PipeSpace == 65535

\* the lengths of input tried: around the first buffer, around half the
\* cap, around the last doubling of the first buffer, around the cap
InputLengths ==
    {0, 1, PipeSpace - 1, PipeSpace, PipeSpace + 1, 2 * PipeSpace,
     536870911, 536870912, 536870913,
     16384 * PipeSpace - 1, 16384 * PipeSpace, 16384 * PipeSpace + 1,
     maxmsgsize - 1, maxmsgsize, maxmsgsize + 1}

\* what read() returns at most in one call: all it is asked for, or less
ReadChunks == {maxmsgsize + 1, 268435456}

\* what fails: nothing, xopen(), malloc(), the first read()
ReadFaults == {"none", "open", "malloc", "read"}

\* the loop of readall(): msglen bytes are in the buffer, space more fit,
\* left are still to come.  msglen * 2 > maxmsgsize is written
\* msglen > maxmsgsize \div 2, the same for an even maxmsgsize, to stay
\* in the range of the model checker's integers.  realloc is taken to
\* succeed.
RECURSIVE readloop(_, _, _, _)
readloop(msglen, space, left, chunk) ==
    IF space = 0 /\ msglen > maxmsgsize \div 2 THEN [rv |-> -2, msglen |-> 0]
    ELSE Only({IF x = 0 THEN [rv |-> 0, msglen |-> msglen]
               ELSE readloop(msglen + x, sp - x, left - x, chunk) :
               <<sp, x>> \in {<<IF space = 0 THEN msglen ELSE space,
                                Min(Min(IF space = 0 THEN msglen ELSE space, left),
                                    chunk)>>}})

\* readall(): regular says what fstat() found, st_size the size it gave,
\* len the number of bytes the reads deliver before end of file
readall(regular, st_size, len, chunk, fault) ==
    IF fault = "open" THEN [rv |-> -1, msglen |-> 0]
    ELSE IF regular /\ st_size > maxmsgsize THEN [rv |-> -2, msglen |-> 0]
    ELSE IF fault = "malloc" THEN [rv |-> -2, msglen |-> 0]
    ELSE IF fault = "read" THEN [rv |-> -3, msglen |-> 0]
    ELSE readloop(0, IF regular THEN st_size + 1 ELSE PipeSpace, len, chunk)

\* one call of readall on a regular file (as large as fstat said, grown or
\* cut since) or on a pipe
ReadAll ==
    /\ pc = "ready"
    /\ \E regular \in BOOLEAN, st_size \in InputLengths, len \in InputLengths,
          chunk \in ReadChunks, fault \in ReadFaults :
          /\ ~regular => st_size = 0
          /\ \E r \in {readall(regular, st_size, len, chunk, fault)} :
                 last' = [op |-> "readall", regular |-> regular,
                          st_size |-> st_size, len |-> len, chunk |-> chunk,
                          fault |-> fault, rv |-> r.rv, msglen |-> r.msglen]
    /\ pc' = "returned"
    /\ UNCHANGED <<keys, art, fs>>

(* ----------------------- readall, step by step ------------------------ *)

\* how many reads of one call may deliver less than was asked for
MaxShort == 2

\* the lengths of input tried here: nothing, a few bytes, around the first
\* buffer, several buffers, around half the cap and around the cap
LoopLengths ==
    {0, 1, 5, PipeSpace, PipeSpace + 1, 4 * PipeSpace + 3,
     536870913, maxmsgsize, maxmsgsize + 1}

\* the locals of a running readall() and what it has done: alloc is the
\* size of the block msg points to, wrote the number of its bytes that
\* read() may have written (the end of the farthest write), left the bytes
\* the descriptor still has
Frame(msglen, space, alloc, wrote, left, shorts) ==
    [kind |-> "readall", msglen |-> msglen, space |-> space, alloc |-> alloc,
     wrote |-> wrote, left |-> left, shorts |-> shorts]

\* a return of readall(): rv, *msgp (the block or NULL), *msglenp, and what
\* has become of the descriptor and of the block
Return(rv, msgp, msglenp, fd, block, alloc, nulat) ==
    [op |-> "readall_ret", rv |-> rv, msgp |-> msgp, msglenp |-> msglenp,
     fd |-> fd, block |-> block, alloc |-> alloc, nulat |-> nulat]

\* the fail label
readall_fail(rv, f) == Return(rv, "NULL", 0, "closed", "freed", f.alloc, -1)

\* readall() up to the loop: a return, or the frame the loop starts with
readall_enter(regular, st_size, len, fault) ==
    IF fault = "open" THEN Return(-1, "NULL", 0, "none", "none", 0, -1)
    ELSE IF regular /\ st_size > maxmsgsize
    THEN Return(-2, "NULL", 0, "closed", "none", 0, -1)
    ELSE IF fault = "malloc" THEN Return(-2, "NULL", 0, "closed", "none", 0, -1)
    ELSE Only({Frame(0, space, space + 1, 0, len, 0) :
               space \in {IF regular THEN st_size + 1 ELSE PipeSpace}})

\* the realloc that leaves no room for the terminator
readall_grow_noterminator(f, fault) ==
    IF f.msglen > maxmsgsize \div 2 THEN readall_fail(-2, f)
    ELSE IF fault = "realloc" THEN readall_fail(-2, f)
    ELSE [f EXCEPT !.space = f.msglen, !.alloc = f.msglen + f.msglen]

\* if (space == 0): the buffer is doubled (msglen * 2 > maxmsgsize is
\* written msglen > maxmsgsize \div 2, the same for an even maxmsgsize)
readall_grow(f, fault) ==
    IF f.msglen > maxmsgsize \div 2 THEN readall_fail(-2, f)
    ELSE IF fault = "realloc" THEN readall_fail(-2, f)
    ELSE [f EXCEPT !.space = f.msglen, !.alloc = f.msglen + f.msglen + 1]

\* read(fd, msg + msglen, space) returning x, and the rest of the loop body
readall_read(f, x, fault) ==
    IF fault = "read" THEN readall_fail(-3, f)
    ELSE IF x = 0
    THEN Return(0, "msg", f.msglen, "closed", "held", f.alloc, f.msglen)
    ELSE [f EXCEPT !.space = @ - x, !.msglen = @ + x, !.left = @ - x,
                   !.wrote = IF f.msglen + x > @ THEN f.msglen + x ELSE @,
                   !.shorts = IF x < Min(f.space, f.left) THEN @ + 1 ELSE @]

\* what became of the call: it goes on in the loop, or it has returned
Proceed(r) ==
    IF "kind" \in DOMAIN r
    THEN /\ art' = r
         /\ pc' = "readall"
         /\ last' = [op |-> "readall_step"]
    ELSE /\ art' = NoArt
         /\ pc' = "returned"
         /\ last' = r

ReadallEnter ==
    /\ pc = "ready"
    /\ \E regular \in BOOLEAN, st_size \in LoopLengths, len \in LoopLengths,
          fault \in {"none", "open", "malloc"} :
          /\ ~regular => st_size = 0
          /\ Proceed(readall_enter(regular, st_size, len, fault))
    /\ UNCHANGED <<keys, fs>>

ReadallGrow ==
    /\ pc = "readall"
    /\ art.space = 0
    /\ \E fault \in {"none", "realloc"} : Proceed(readall_grow(art, fault))
    /\ UNCHANGED <<keys, fs>>

\* read() delivers what is asked for and there, or, a few times, half
ReadallRead ==
    /\ pc = "readall"
    /\ art.space > 0
    /\ \E fault \in {"none", "read"}, short \in BOOLEAN :
          /\ short => (art.shorts < MaxShort /\ Min(art.space, art.left) >= 2)
          /\ \E x \in {IF short THEN Min(art.space, art.left) \div 2
                         ELSE Min(art.space, art.left)} :
                 Proceed(readall_read(art, x, fault))
    /\ UNCHANGED <<keys, fs>>

(* ------------------------ base64 line wrapping ------------------------ *)

\* bytes of a character buffer: the terminator, the inserted newline, a
\* byte nothing has written yet (which may be 0 or not), and the characters
\* of the string, the i-th being i
NUL == 0
NEWLINE == -1
Junk == -2
LineLen == 76
MaxStrLen == 160

TheString(len) == [i \in 1..len |-> i]

\* a buffer of space bytes, indexed from 0, holding str and its terminator;
\* the bytes behind are fill
Buffer(str, space, fill) ==
    [i \in 0..(space - 1) |->
        IF i < Len(str) THEN str[i + 1] ELSE IF i = Len(str) THEN NUL ELSE fill]

\* strlen(): the index of the first terminator, or -1 when the buffer has
\* none and the scan leaves it
strlen(buf) ==
    IF \A i \in DOMAIN buf : buf[i] # NUL THEN -1
    ELSE CHOOSE i \in DOMAIN buf : buf[i] = NUL /\ \A j \in DOMAIN buf : j < i => buf[j] # NUL

\* memmove(buf + dst, buf + src, n)
memmove(buf, dst, src, n) ==
    [i \in DOMAIN buf |->
        IF dst <= i /\ i < dst + n THEN buf[i - dst + src] ELSE buf[i]]

\* the loop of wraplines()
RECURSIVE wraploop(_, _, _)
wraploop(buf, len, num) ==
    IF num = 0 THEN buf
    ELSE Only({wraploop([memmove(buf, pos + num, pos, amt + 1)
                            EXCEPT ![pos + num] = NEWLINE], len, num - 1) :
               <<pos, amt>> \in {<<LineLen * num - 1,
                                   IF len - (LineLen * num - 1) < LineLen
                                   THEN len - (LineLen * num - 1) ELSE LineLen>>}})

\* wraplines(str, space), for a string of at least one character
wraplines(buf, space) ==
    Only({IF len + ((len - 1) \div LineLen) + 1 > space THEN buf
          ELSE wraploop(buf, len, (len - 1) \div LineLen) :
          len \in {strlen(buf)}})

\* the bytes writeb64data() writes for the string in b64, from pos on
RECURSIVE writeb64lines(_, _)
writeb64lines(b64, pos) ==
    IF Len(b64) - pos <= 0 THEN <<>>
    ELSE Only({SubSeq(b64, pos + 1, pos + amt) \o <<NEWLINE>>
                   \o writeb64lines(b64, pos + amt) :
               amt \in {IF Len(b64) - pos > LineLen THEN LineLen
                        ELSE Len(b64) - pos}})

\* the string a buffer holds, as a sequence; the empty one when the
\* buffer has no terminator
CString(buf) ==
    IF strlen(buf) = -1 THEN <<>> ELSE [i \in 1..strlen(buf) |-> buf[i - 1]]

\* wraplines() on a string of len characters in a buffer of space bytes
\* that had fill in it before the string was put there
WrapLines ==
    /\ pc = "ready"
    /\ \E len \in 1..MaxStrLen, slack \in {-1, 0, 1}, fill \in {NUL, Junk} :
          \E space \in {len + ((len - 1) \div LineLen) + 1 + slack} :
          /\ space >= len + 1
          /\ \E out \in {wraplines(Buffer(TheString(len), space, fill), space)} :
              last' = [op |-> "wraplines", len |-> len, space |-> space,
                       fill |-> fill, outlen |-> strlen(out), out |-> CString(out)]
    /\ pc' = "returned"
    /\ UNCHANGED <<keys, art, fs>>

\* writeb64data() on a string of len characters
WriteB64Data ==
    /\ pc = "ready"
    /\ \E len \in 0..MaxStrLen :
          last' = [op |-> "writeb64data", len |-> len,
                   out |-> writeb64lines(TheString(len), 0)]
    /\ pc' = "returned"
    /\ UNCHANGED <<keys, art, fs>>

(* ------------------- the binary branch, byte by byte ------------------ *)

\* the longest input tried: the magic, the largest header, the length, an
\* identity of 63 bytes and two bytes of ciphertext
MaxBinLen == 203

\* REOP_BINARY with its terminator, and the tags, as bytes
Magic == <<82, 66, 70, 0>>
TagBytes(alg) ==
    CASE alg = SYMALG -> <<83, 80>>
      [] alg = ENCALG -> <<101, 67>>
      [] alg = OLDENCALG -> <<67, 83>>
      [] alg = OLDEKCALG -> <<101, 83>>
      [] OTHER -> <<88, 88>>

\* the variant whose tag the two bytes are
TagOf(bytes) ==
    IF \E alg \in Variants : TagBytes(alg) = bytes
    THEN CHOOSE alg \in Variants : TagBytes(alg) = bytes
    ELSE BADALG

\* identlen >= n for the uint32_t the four bytes are in network order
\* (n below 256)
U32AtLeast(b, n) == b[1] # 0 \/ b[2] # 0 \/ b[3] # 0 \/ b[4] >= n

BinFail(read) ==
    [fail |-> TRUE, read |-> read, hdr |-> <<>>, hdrsize |-> -1, identlen |-> -1,
     ident |-> [i \in 1..IDENTLEN |-> Junk], msg |-> <<>>, msglen |-> 0]

\* decrypt() that does not compare identlen with the size of ident[]
decrypt_binary_nolimit(encdata) ==
    LET endptr == Len(encdata)
        hdrsize == HdrSize(TagOf(SubSeq(encdata, 5, 6)))
        ptr == 4 + hdrsize
        b == SubSeq(encdata, ptr + 1, ptr + 4)
        identlen == (b[2] * 256 + b[3]) * 256 + b[4]
    IN  IF hdrsize = -1 THEN BinFail(6)
        ELSE IF ptr > endptr THEN BinFail(6)
        ELSE IF ptr + 4 > endptr THEN BinFail(ptr)
        ELSE IF b[1] # 0 \/ ptr + 4 + identlen > endptr THEN BinFail(ptr + 4)
        ELSE [fail |-> FALSE, read |-> ptr + 4 + identlen,
              hdr |-> SubSeq(encdata, 5, ptr), hdrsize |-> hdrsize,
              identlen |-> identlen,
              ident |-> [i \in 1..IDENTLEN |->
                            IF i <= identlen THEN encdata[ptr + 4 + i]
                            ELSE IF i = identlen + 1 THEN NUL ELSE Junk],
              msg |-> SubSeq(encdata, ptr + 4 + identlen + 1, endptr),
              msglen |-> endptr - (ptr + 4 + identlen)]

\* decrypt(): the binary branch on the bytes of a file of at least six
\* bytes that begins with the magic.  ptr counts the bytes before the one
\* it points to, endptr is the length; read is the last byte the branch
\* has looked at; ident[] starts as the stack left it.
decrypt_binary(encdata) ==
    LET endptr == Len(encdata)
        hdrsize == HdrSize(TagOf(SubSeq(encdata, 5, 6)))
        ptr == 4 + hdrsize
        b == SubSeq(encdata, ptr + 1, ptr + 4)
        identlen == b[4]
    IN  IF hdrsize = -1 THEN BinFail(6)
        ELSE IF ptr > endptr THEN BinFail(6)
        ELSE IF ptr + 4 > endptr THEN BinFail(ptr)
        ELSE IF U32AtLeast(b, IDENTLEN) THEN BinFail(ptr + 4)
        ELSE IF ptr + 4 + identlen > endptr THEN BinFail(ptr + 4)
        ELSE [fail |-> FALSE, read |-> ptr + 4 + identlen,
              hdr |-> SubSeq(encdata, 5, ptr), hdrsize |-> hdrsize,
              identlen |-> identlen,
              ident |-> [i \in 1..IDENTLEN |->
                            IF i <= identlen THEN encdata[ptr + 4 + i]
                            ELSE IF i = identlen + 1 THEN NUL ELSE Junk],
              msg |-> SubSeq(encdata, ptr + 4 + identlen + 1, endptr),
              msglen |-> endptr - (ptr + 4 + identlen)]

\* the files tried: the magic, a tag, and then bytes that tell their place,
\* with four bytes of a length where the header of the tag's variant ends
LengthFields == {<<0, 0, 0, 0>>, <<0, 0, 0, 1>>, <<0, 0, 0, 63>>, <<0, 0, 0, 64>>,
                 <<0, 0, 0, 255>>, <<0, 0, 1, 0>>, <<1, 0, 0, 3>>,
                 <<128, 0, 0, 0>>, <<255, 255, 255, 255>>}

BinInput(alg, field, total) ==
    LET at == 4 + HdrSize(alg)
    IN  [i \in 1..total |->
            IF i <= 4 THEN Magic[i]
            ELSE IF i <= 6 THEN TagBytes(alg)[i - 4]
            ELSE IF HdrSize(alg) # -1 /\ i > at /\ i <= at + 4 THEN field[i - at]
            ELSE i % 256]

\* one run of the binary branch
ParseBinary ==
    /\ pc = "ready"
    /\ \E alg \in StackAlgs, field \in LengthFields, total \in 6..MaxBinLen :
          \E encdata \in {BinInput(alg, field, total)} :
              last' = [op |-> "parsebinary", alg |-> alg, field |-> field,
                       encdata |-> encdata, r |-> decrypt_binary(encdata)]
    /\ pc' = "returned"
    /\ UNCHANGED <<keys, art, fs>>

Next ==
    \/ Generate(Idents, RandomIds)
    \/ Sign
    \/ Verify
    \/ PubEncrypt
    \/ PubDecrypt
    \/ SymEncrypt
    \/ SymDecrypt
    \/ SymDecryptZeroRounds
    \/ EncodeSeckey
    \/ ParseSeckey
    \/ GenerateCmd(Idents, RandomIds, CmdPasswords, Salts, Nonces, WriteErrors)
    \/ RemoveKeys
    \/ VerifyTag
    \/ ParseSeckeyTag
    \/ SymDecryptTag
    \/ ParsePubkey
    \/ ParseSig
    \/ ParseSeckeyText
    \/ WriteMsg(Messages)
    \/ AddToKeyring
    \/ EncryptCmd(Variants, TtyValues, Salts, Nonces)
    \/ CorruptEnc
    \/ ForgeHeader
    \/ ParseBinary
    \/ InstallPubkey
    \/ DecryptCmd({NoName, "pubkey"}, TtyValues, WriteErrors, StackAlgs)
    \/ SignEmbedded
    \/ VerifyEmbedded
    \/ ReadAll
    \/ ReadallEnter
    \/ ReadallGrow
    \/ ReadallRead
    \/ WrapLines
    \/ WriteB64Data

Spec == Init /\ [][Next]_vars

\* The calls of one kind of artifact.  Signatures and envelopes copy the
\* identity and never read it, so one identity and every randomid are
\* generated for them; encoding a secret key never compares randomids, so
\* one randomid and every identity are generated for it.
NextSign ==
    \/ Generate(PlainIdents, RandomIds)
    \/ Sign
    \/ Verify

SpecSign == Init /\ [][NextSign]_vars

NextPub ==
    \/ Generate(PlainIdents, RandomIds)
    \/ PubEncrypt
    \/ PubDecrypt

SpecPub == Init /\ [][NextPub]_vars

NextSym ==
    \/ SymEncrypt
    \/ SymDecrypt

SpecSym == Init /\ [][NextSym]_vars

\* symmetric envelopes with a round count of 0
NextZero ==
    \/ SymEncrypt
    \/ SymDecryptZeroRounds

SpecZero == Init /\ [][NextZero]_vars

NextKey ==
    \/ Generate(Idents, OneRandomId)
    \/ EncodeSeckey
    \/ ParseSeckey

SpecKey == Init /\ [][NextKey]_vars

\* the generate command and the library call that encodes a secret key
NextGen ==
    \/ GenerateCmd(PlainIdents, OneRandomId, CmdPasswords, Salts, Nonces, WriteErrors)
    \/ RemoveKeys
    \/ EncodeSeckey

SpecGen == Init /\ [][NextGen]_vars

\* signatures, encoded secret keys and symmetric headers, and the calls
\* that consume them with one algorithm tag replaced
NextTags ==
    \/ Generate(PlainIdents, OneRandomId)
    \/ Sign
    \/ EncodeSeckey
    \/ SymEncrypt
    \/ VerifyTag
    \/ ParseSeckeyTag
    \/ SymDecryptTag

SpecTags == Init /\ [][NextTags]_vars

\* encoding and parsing the three armored kinds, every identity
NextParse ==
    \/ Generate(Idents, OneRandomId)
    \/ Sign
    \/ EncodeSeckey
    \/ ParsePubkey
    \/ ParseSig
    \/ ParseSeckeyText

SpecParse == Init /\ [][NextParse]_vars

\* the commands that make key files, message files and encrypted files of
\* the four variants in both framings, and the decrypt command given -p
OneSalt == {"s1"}
OneNonce == {"n1"}
OneTty == {NoTTY, Typed(PW, PW)}
TwoMessages == {<<>>, <<7>>}

NextDec ==
    \/ GenerateCmd(PlainIdents, RandomIds, {Str(EMPTY)}, OneSalt, OneNonce, {NoWriteError})
    \/ RemoveKeys
    \/ WriteMsg(TwoMessages)
    \/ EncryptCmd(Variants, OneTty, OneSalt, OneNonce)
    \/ CorruptEnc
    \/ DecryptCmd({"pubkey"}, OneTty, {NoWriteError, 0}, NoTagOnStack)

SpecDec == Init /\ [][NextDec]_vars

\* the encrypt command for the variants it writes by default, in both
\* framings, and the decrypt command with -p or with the key ring
NextFrame ==
    \/ GenerateCmd(Idents, OneRandomId, {Str(EMPTY)}, OneSalt, OneNonce, {NoWriteError})
    \/ AddToKeyring
    \/ WriteMsg(TwoMessages)
    \/ EncryptCmd({SYMALG, ENCALG}, OneTty, OneSalt, OneNonce)
    \/ DecryptCmd({NoName, "pubkey"}, OneTty, {NoWriteError}, NoTagOnStack)

SpecFrame == Init /\ [][NextFrame]_vars

\* the legacy CS variant between correspondents: the own key pair is made
\* by the generate command, the others elsewhere, and -p names the file of
\* whichever public key the user put there
NextCS ==
    \/ GenerateCmd(PlainIdents, RandomIds, {Str(EMPTY)}, OneSalt, OneNonce, {NoWriteError})
    \/ Generate(PlainIdents, RandomIds)
    \/ InstallPubkey
    \/ WriteMsg(TwoMessages)
    \/ EncryptCmd({OLDENCALG}, OneTty, OneSalt, OneNonce)
    \/ DecryptCmd({"pubkey"}, OneTty, {NoWriteError}, NoTagOnStack)

SpecCS == Init /\ [][NextCS]_vars

\* the decrypt command on files whose header is not one a variant takes:
\* all four variants in both framings, with and without the key files
NextHdr ==
    \/ GenerateCmd(PlainIdents, OneRandomId, {Str(EMPTY)}, OneSalt, OneNonce, {NoWriteError})
    \/ RemoveKeys
    \/ WriteMsg({<<7>>})
    \/ EncryptCmd(Variants, OneTty, OneSalt, OneNonce)
    \/ ForgeHeader
    \/ DecryptCmd({"pubkey"}, OneTty, {NoWriteError}, StackAlgs)

SpecHdr == Init /\ [][NextHdr]_vars

\* one call of readall(), step by step
NextLoop ==
    \/ ReadallEnter
    \/ ReadallGrow
    \/ ReadallRead

SpecLoop == Init /\ [][NextLoop]_vars

NextBin == ParseBinary

SpecBin == Init /\ [][NextBin]_vars

NextEmb ==
    \/ Generate(Idents, RandomIds)
    \/ SignEmbedded
    \/ VerifyEmbedded

SpecEmb == Init /\ [][NextEmb]_vars

NextRead == ReadAll

NextWrap ==
    \/ WrapLines
    \/ WriteB64Data

SpecWrap == Init /\ [][NextWrap]_vars

SpecRead == Init /\ [][NextRead]_vars

(* ======================= signatures: C1, C2 =========================== *)

\* the verifying key pair is the signing one and the bytes are the signed ones
Genuine == last.with = last.by /\ last.msg = last.signed

\* C1: reop_verify returns MISMATCH, without calling the signature check,
\* whenever the public key's randomid differs from the signature's; with
\* equal randomids it calls the check once and returns OK when the
\* signature is the key's own over these bytes and FAIL otherwise.  So the
\* signature of one pair checked against another pair's public key over
\* the same message gives MISMATCH when their randomids differ, FAIL when
\* they are equal.
C1_VerifyOutcome ==
    last.op = "reop_verify" =>
        LET pubkey == keys[last.with].pubkey
        IN  /\ pubkey.randomid # last.sig.randomid =>
                    last.rv = REOP_V_MISMATCH /\ last.calls = <<>>
            /\ pubkey.randomid = last.sig.randomid =>
                    /\ last.calls = <<"verifyraw">>
                    /\ last.rv = IF Genuine THEN REOP_V_OK ELSE REOP_V_FAIL
            /\ (last.with # last.by /\ last.msg = last.signed) =>
                    last.rv = IF keys[last.with].seckey.randomid
                                    # keys[last.by].seckey.randomid
                              THEN REOP_V_MISMATCH ELSE REOP_V_FAIL

\* two different pairs with the same randomid: the check runs and fails
C1_Witness ==
    /\ last.op = "reop_verify"
    /\ last.with # last.by
    /\ last.msg = last.signed
    /\ keys[last.with].pubkey.randomid = keys[last.by].seckey.randomid
    /\ last.rv = REOP_V_FAIL

\* C2: a signature by a generated secret key over m verifies as OK under
\* the public key of the same pair over m.
C2_SignVerifyRoundtrip ==
    (last.op = "reop_verify" /\ Genuine) => last.rv = REOP_V_OK

C2_Witness ==
    last.op = "reop_verify" /\ Genuine /\ last.rv = REOP_V_OK /\ Len(last.msg) > 0

(* =================== public-key envelope: C3, C4, C5 ================== *)

\* what the call was given, against what the envelope was made for
IdsMatch ==
    /\ last.encmsg.pubrandomid = last.seckey.randomid
    /\ last.encmsg.secrandomid = last.pubkey.randomid
AlgsOk == last.pubkey.encalg = ENCKEYALG /\ last.seckey.encalg = ENCKEYALG
\* the box around the ephemeral key was made by (last.to's public, last.from's
\* secret) and is opened with (last.pub's public, last.sec's secret)
EphAuthentic == {last.pub, last.sec} = {last.to, last.from} /\ last.damage # "ephtag"
\* the body was boxed to last.to and is opened with last.sec's secret
BodyAuthentic == last.sec = last.to /\ last.damage \notin {"tag", "body"}

\* C3: reop_pubdecrypt answers MISMATCH unless both randomids match, then
\* INVALID unless both keys are CS keys, then FAIL unless the ephemeral-key
\* box authenticates, then FAIL unless the body authenticates, and OK only
\* then; the body is opened only after the ephemeral-key box has
\* authenticated, and the buffer changes only on OK.
C3_PubDecryptOrder ==
    last.op = "reop_pubdecrypt" =>
        /\ last.rv = IF ~IdsMatch THEN REOP_D_MISMATCH
                     ELSE IF ~AlgsOk THEN REOP_D_INVALID
                     ELSE IF ~EphAuthentic THEN REOP_D_FAIL
                     ELSE IF ~BodyAuthentic THEN REOP_D_FAIL
                     ELSE REOP_D_OK
        /\ last.calls = IF ~IdsMatch \/ ~AlgsOk THEN <<>>
                        ELSE IF ~EphAuthentic THEN <<"eph">>
                        ELSE <<"eph", "body">>
        /\ last.rv # REOP_D_OK => last.msg = last.given

\* the ephemeral key authenticated and the body did not
C3_Witness ==
    /\ last.op = "reop_pubdecrypt"
    /\ IdsMatch /\ AlgsOk /\ EphAuthentic /\ ~BodyAuthentic
    /\ last.rv = REOP_D_FAIL
    /\ last.calls = <<"eph", "body">>

\* C4: an envelope made by reop_pubencrypt(R.pub, S.sec) over a buffer
\* holding m, given with S.pub and R.sec to reop_pubdecrypt, gives OK and
\* leaves exactly m, of the same length, in the buffer.
C4_PubRoundtrip ==
    (/\ last.op = "reop_pubdecrypt"
     /\ last.damage = "none"
     /\ last.pub = last.from
     /\ last.sec = last.to) =>
        /\ last.rv = REOP_D_OK
        /\ last.msg = last.sent
        /\ Len(last.msg) = Len(last.sent)

\* sender and recipient are different pairs with different randomids
C4_Witness ==
    /\ last.op = "reop_pubdecrypt"
    /\ last.damage = "none"
    /\ last.pub = last.from
    /\ last.sec = last.to
    /\ last.from # last.to
    /\ keys[last.from].pubkey.randomid # keys[last.to].pubkey.randomid
    /\ last.rv = REOP_D_OK
    /\ Len(last.msg) = MaxMsgLen

\* C5: an envelope made by reop_pubencrypt(R.pub, S.sec), given to
\* reop_pubdecrypt with R.sec and the public key of a pair other than S,
\* gives MISMATCH or FAIL, never OK, and the body is not opened.
C5_SenderBinding ==
    (/\ last.op = "reop_pubdecrypt"
     /\ last.damage = "none"
     /\ last.pub # last.from
     /\ last.sec = last.to) =>
        /\ last.rv \in {REOP_D_MISMATCH, REOP_D_FAIL}
        /\ last.calls \in {<<>>, <<"eph">>}
        /\ last.msg = last.given

\* the other pair has the sender's randomid: only the box tells them apart
C5_Witness ==
    /\ last.op = "reop_pubdecrypt"
    /\ last.damage = "none"
    /\ last.pub # last.from
    /\ last.sec = last.to
    /\ keys[last.pub].pubkey.randomid = keys[last.from].pubkey.randomid
    /\ last.rv = REOP_D_FAIL
    /\ last.calls = <<"eph">>

(* ====================== symmetric envelope: C6 ======================== *)

\* C6: reop_symdecrypt, given the passphrase reop_symencrypt was given and
\* the header and ciphertext it made, returns OK and restores the message;
\* given any other passphrase it returns FAIL.
C6_SymRoundtrip ==
    (/\ last.op = "reop_symdecrypt"
     /\ last.damage = "none"
     /\ ~last.made.null
     /\ ~last.password.null) =>
        /\ ~last.exit
        /\ IF last.password = last.made
           THEN last.rv = REOP_D_OK /\ last.msg = last.sent
           ELSE last.rv = REOP_D_FAIL

(* ==================== secret key wrapping: C7 - C10 =================== *)

\* the key reop_encodeseckey was given
Encoded == keys[last.of].seckey

Parsed == last.op = "reop_parseseckey"

\* C7: parsing what reop_encodeseckey(k, p) made, with the same p, returns
\* a key with k's secret bytes, randomid, algorithm tags and ident.
C7_SeckeyRoundtrip ==
    (Parsed /\ ~last.made.null /\ last.password = last.made) =>
        /\ ~last.exit
        /\ last.seckey # NULLKEY
        /\ last.seckey.secret = Encoded.secret
        /\ last.seckey.randomid = Encoded.randomid
        /\ last.seckey.sigalg = Encoded.sigalg
        /\ last.seckey.encalg = Encoded.encalg
        /\ last.seckey.symalg = Encoded.symalg
        /\ last.seckey.kdfalg = Encoded.kdfalg
        /\ last.seckey.ident = Encoded.ident

\* C8: a key encoded with a non-empty passphrase, parsed with any other
\* passphrase (the empty one too), makes reop_parseseckey return NULL to its
\* caller.
C8_WrongPassphraseReturnsFailure ==
    (/\ Parsed
     /\ ~last.made.null /\ Len(last.made.s) > 0
     /\ ~last.password.null /\ last.password # last.made) =>
        /\ ~last.exit
        /\ last.seckey = NULLKEY

\* C9 as stated: a key encoded with the empty passphrase parses with the
\* empty passphrase and fails to parse with any non-empty one.
C9_ZeroRoundRejectsPassphrase ==
    (Parsed /\ last.made = Str(EMPTY) /\ ~last.password.null) =>
        /\ ~last.exit
        /\ IF last.password.s = EMPTY
           THEN last.seckey # NULLKEY
           ELSE last.seckey = NULLKEY

\* C9 as the code has it: a key encoded with the empty passphrase parses
\* with the empty passphrase, with any non-empty passphrase and with none;
\* the stored round count is 0, the key is the zero key and no passphrase
\* source is looked at.
C9_ZeroRoundIgnoresPassphrase ==
    (Parsed /\ last.made = Str(EMPTY)) =>
        /\ ~last.exit
        /\ last.seckey # NULLKEY
        /\ last.seckey.secret = Encoded.secret
        /\ last.kdf.key = ZeroKey
        /\ last.kdf.consulted = {}
        /\ ~last.kdf.bcrypt

C9_Witness ==
    /\ Parsed
    /\ last.made = Str(EMPTY)
    /\ last.password = Str(PW)
    /\ last.seckey # NULLKEY
    /\ last.seckey.secret = Encoded.secret

\* the passphrase kdf takes when it is given rounds # 0 and does not exit
Passphrase ==
    IF ~last.password.null THEN last.password.s
    ELSE IF ~last.env.null THEN last.env.s
    ELSE last.tty.first

\* C10: encryptseckey stores rounds 0 (four zero bytes) exactly when the
\* password argument is the empty string and 42 (0, 0, 0, 42) otherwise;
\* with 0 the key is the zero key, bcrypt_pbkdf is not called and no
\* passphrase source is looked at; with 42 the key is that of bcrypt_pbkdf
\* over the passphrase, the salt stored in the key and 42 rounds; and the
\* secret bytes are boxed under that key.
C10_EncryptRounds ==
    last.op = "reop_encodeseckey" =>
        LET empty == ~last.password.null /\ last.password.s = EMPTY
        IN  /\ last.copy.kdfrounds = IF empty THEN <<0, 0, 0, 0>> ELSE <<0, 0, 0, 42>>
            /\ last.copy.salt = last.salt
            /\ empty =>
                   /\ ~last.exit
                   /\ last.kdf.key = ZeroKey
                   /\ ~last.kdf.bcrypt
                   /\ last.kdf.consulted = {}
            /\ (~empty /\ ~last.exit) =>
                   /\ last.kdf.bcrypt
                   /\ last.kdf.key = [t |-> "bk", pass |-> Passphrase,
                                      salt |-> last.copy.salt, rounds |-> 42]
            /\ ~last.exit =>
                   /\ last.copy.secret.t = "box"
                   /\ last.copy.secret.key = last.kdf.key
                   /\ last.copy.secret.pt = Encoded.secret

\* no password argument: the passphrase typed at the terminal is used
C10_Witness ==
    /\ last.op = "reop_encodeseckey"
    /\ last.password = NULL
    /\ last.env = NULL
    /\ ~last.exit
    /\ last.copy.kdfrounds = <<0, 0, 0, 42>>
    /\ last.kdf.key.pass = PW

(* ==================== secret key on disk: C11 ========================= *)

IsBox(x) == "t" \in DOMAIN x /\ x.t = "box"

\* the base64 block holds the secret bytes of key pair k only as a box
\* under the key the stored salt and rounds give, with its nonce and tag
WrappedBlock(d, k) ==
    /\ IsBox(d.secret)
    /\ d.secret.pt = keys[k].seckey.secret
    /\ d.secret.nonce = d.nonce
    /\ d.tag = Mac(d.secret.key, d.nonce, d.secret)
    /\ d.kdfrounds \in {<<0, 0, 0, 0>>, <<0, 0, 0, 42>>}
    /\ d.kdfrounds = <<0, 0, 0, 0>> => d.secret.key = ZeroKey
    /\ d.kdfrounds = <<0, 0, 0, 42>> =>
           /\ d.secret.key.t = "bk"
           /\ d.secret.key.salt = d.salt
           /\ d.secret.key.rounds = 42

\* no piece of the text is or holds the secret bytes themselves
WrappedText(text, k, password) ==
    \A i \in DOMAIN text :
        /\ text[i] # keys[k].seckey.secret
        /\ text[i].t \in {"ch", "lit", "b64"}
        /\ text[i].t = "b64" =>
               /\ WrappedBlock(text[i].data, k)
               /\ password = Str(EMPTY) => text[i].data.secret.key = ZeroKey

\* C11: every text reop_encodeseckey returns, and every state of the secret
\* key file generate leaves behind (whole, cut short by a failed write, or
\* empty), holds sigkey and enckey only as the box under the derived key
\* (the zero key for the empty passphrase) with the matching salt, rounds,
\* nonce and tag; the bytes themselves are never in the file.
C11_SecretOnlyWrapped ==
    /\ art.kind = "seckey" => WrappedText(art.str, art.of, art.password)
    /\ last.op = "generate" => WrappedText(last.keydata, last.of, last.password)
    /\ (last.op = "generate" /\ last.created) =>
           /\ WrappedText(fs["seckey"].data, last.of, last.password)
           /\ Len(fs["seckey"].data) <= Len(last.keydata)
           /\ fs["seckey"].data = SubSeq(last.keydata, 1, Len(fs["seckey"].data))
    /\ \/ fs["seckey"].data = <<>>
       \/ \E k \in 1..Len(keys) : WrappedText(fs["seckey"].data, k, NULL)

C11_Witness ==
    /\ last.op = "generate"
    /\ last.password = Str(EMPTY)
    /\ ~last.exit
    /\ fs["seckey"].data = last.keydata
    /\ \E i \in DOMAIN last.keydata : last.keydata[i].t = "b64"

(* ====================== algorithm tags: C12 =========================== *)

\* C12: a call given a signature, key or header with a foreign algorithm
\* tag (sigalg for reop_verify; sigalg, encalg, symalg or kdfalg for
\* secret key loading; symalg or kdfalg for reop_symdecrypt) does not
\* succeed and does not get as far as the key derivation or the signature
\* check.
C12_ForeignTagRejected ==
    (last.op \in {"reop_verify", "reop_parseseckey", "reop_symdecrypt"}
     /\ "tag" \in DOMAIN last) =>
        /\ ~last.ok
        /\ ~last.crypto

(* ==================== process termination: C13 ======================== *)

\* C13: reop_parsepubkey, reop_parseseckey, reop_parsesig and
\* reop_encodeseckey return to their caller for every input, malformed
\* text and every passphrase failure included: none ends the process.
C13_NeverExits ==
    last.op \in {"reop_parsepubkey", "reop_parseseckey", "reop_parsesig",
                 "reop_encodeseckey"} => ~last.exit

\* C14: a run of the decrypt command that stops before its end leaves every
\* file as it was, the message file neither created, truncated nor written;
\* a run that opens the message file has parsed the encrypted file and
\* recovered an authenticated plaintext, which is all it writes; and an
\* encrypted file that is as the encrypt command left it gives back the
\* message it was made from.
C14_OutputOnlyAfterSuccess ==
    [][last'.op = "decrypt" =>
          /\ last'.stage \notin {"write", "done"} => (fs' = fs /\ ~last'.opened)
          /\ fs' # fs => last'.opened
          /\ last'.opened =>
                /\ last'.stage \in {"write", "done"}
                /\ ~parseencfile(fs["enc"].data).fail
                /\ last'.plain \in Messages
                /\ Intact => last'.plain = art.msg
                /\ fs' = [fs EXCEPT !["msg"] = fs'["msg"]]
                /\ fs'["msg"].exists
                /\ fs'["msg"].data = SubSeq(last'.plain, 1, Len(fs'["msg"].data))
                /\ last'.stage = "done" => fs'["msg"].data = last'.plain]_vars

C14_Witness ==
    /\ last.op = "decrypt"
    /\ last.stage = "done"
    /\ Intact
    /\ art.alg = OLDEKCALG
    /\ ~art.binary
    /\ fs["msg"].data = art.msg
    /\ Len(art.msg) > 0

\* C15: whenever one of the functions that handle key material returns,
\* its local buffer for a derived key, an ephemeral secret or a recovered
\* ephemeral key is not left holding it.
C15_BuffersWiped ==
    ("stack" \in DOMAIN last /\ pc # "exited") => last.stack # Held

\* C16: absent a failing open, malloc or read, readall succeeds with all
\* the bytes exactly when the input is at most 2^30 bytes long, returns -2
\* exactly when it is longer, and never succeeds with more than 2^30 bytes.
C16_CapIsOneGiB ==
    (last.op = "readall" /\ last.fault = "none") =>
        /\ (last.rv = 0 /\ last.msglen = last.len) <=> last.len <= maxmsgsize
        /\ last.rv = -2 <=> last.len > maxmsgsize
        /\ last.rv = 0 => last.msglen <= maxmsgsize

\* the part of C16 that readall keeps: no success beyond the cap, and a
\* regular file that is as large as fstat said is read whole up to the cap
C16_NeverBeyondCap ==
    (last.op = "readall" /\ last.fault = "none") =>
        /\ last.rv \in {0, -2}
        /\ last.rv = 0 => (last.msglen = last.len /\ last.len <= maxmsgsize)
        /\ last.len > maxmsgsize => last.rv = -2
        /\ (last.regular /\ last.st_size = last.len /\ last.len <= maxmsgsize)
               => last.rv = 0
        /\ (~last.regular /\ last.len < 16384 * PipeSpace) => last.rv = 0

\* C17: wraplines, given a string of L >= 1 characters in a buffer of at
\* least L + (L-1) div 76 + 1 bytes, leaves a string with a newline after
\* every 76 characters, no line longer than 76, no empty line, and the
\* characters of the original in order once the newlines are deleted;
\* writeb64data writes lines of at most 76 characters whose concatenation
\* is the string.
Strip(out) == SelectSeq(out, LAMBDA x : x # NEWLINE)

Recovered ==
    /\ ~last.exit
    /\ last.rv = REOP_V_OK
    /\ last.msg = last.signed
    /\ last.sigat = Len(last.signed) + 2

PlainIdent(ident) ==
    \A i \in 1..Len(ident) : ident[i] \notin MarkerWords \cup {"\n"}

C20_IdentRoundtrip ==
    (/\ last.op \in {"reop_parsepubkey", "reop_parsesig", "reop_parseseckey"}
     /\ "damage" \in DOMAIN last
     /\ last.damage = "none"
     /\ Len(last.encoded.ident) \in 1..(IDENTLEN - 1)) =>
        /\ last.op # "reop_parseseckey" => ~last.exit
        /\ (~last.exit /\ "ident" \in DOMAIN last.key) =>
               last.key.ident = last.encoded.ident

\* the part of C20 that holds: the struct bytes come back, and so does an
\* ident without blanks
C20_BytesRoundtrip ==
    (/\ last.op \in {"reop_parsepubkey", "reop_parsesig"}
     /\ "damage" \in DOMAIN last
     /\ last.damage = "none"
     /\ Len(last.encoded.ident) \in 1..(IDENTLEN - 1)) =>
        /\ ~last.exit
        /\ Payload(last.key) = Payload(last.encoded)
        /\ (\A i \in 1..Len(last.encoded.ident) : last.encoded.ident[i] # " ")
               => last.key.ident = last.encoded.ident

\* C19: the binary file and the armored file that writeencfile makes of
\* one header, identity and ciphertext are parsed by decrypt into the same
\* header, of the same size, and the same ciphertext, of the length of the
\* message, and decrypt, run on either with the same keys, passphrase and
\* -p argument, ends the same way with the same plaintext.
AsBinary == writeencfile(art.hdr, art.hdrlen, art.ident, art.ct, Len(art.msg), TRUE)
AsArmored == writeencfile(art.hdr, art.hdrlen, art.ident, art.ct, Len(art.msg), FALSE)

SameParse(b, a) ==
    /\ ~b.fail /\ ~a.fail /\ ~b.exit /\ ~a.exit
    /\ b.hdr = a.hdr /\ b.hdr = Payload(art.hdr)
    /\ b.hdrsize = a.hdrsize /\ b.hdrsize = art.hdrlen
    /\ b.msg = a.msg /\ b.msg = art.ct
    /\ b.msglen = a.msglen /\ b.msglen = Len(art.msg)

SameEnd(b, a) ==
    /\ b.exit = a.exit /\ b.stage = a.stage /\ b.plain = a.plain
    /\ b.fs["msg"] = a.fs["msg"]

C19_FramingEquivalence ==
    art.kind = "encfile" =>
        /\ SameParse(parseencfile(AsBinary), parseencfile(AsArmored))
        /\ \A pubkeyfile \in {NoName, "pubkey"}, env \in EnvValues, tty \in OneTty :
              SameEnd(decrypt([fs EXCEPT !["enc"] = File(AsBinary)],
                              pubkeyfile, env, tty, NoWriteError, BADALG),
                      decrypt([fs EXCEPT !["enc"] = File(AsArmored)],
                              pubkeyfile, env, tty, NoWriteError, BADALG))

C19_Witness ==
    /\ art.kind = "encfile"
    /\ art.alg = ENCALG
    /\ art.binary
    /\ Len(art.msg) = 0
    /\ fs["enc"].data = AsBinary
    /\ last.op = "decrypt"
    /\ last.pubkeyfile = NoName
    /\ last.stage = "done"
    /\ decrypt([fs EXCEPT !["enc"] = File(AsArmored)], NoName, last.env, last.tty,
               NoWriteError, last.hdralg).stage = "done"

(* ===================== legacy CS envelopes: C21 ======================= *)

\* the two randomids of the envelope are those of the two keys, one way
\* round or the other
EitherOrdering(hdr, pubkey, seckey) ==
    \/ hdr.pubrandomid = pubkey.randomid /\ hdr.secrandomid = seckey.randomid
    \/ hdr.pubrandomid = seckey.randomid /\ hdr.secrandomid = pubkey.randomid

\* the decrypt command has gone past the comparison of the randomids
PastIds == last.stage \in {"format", "auth", "write", "done"}

\* the run of decrypt was on a CS envelope of the right size, with both
\* keys loaded
LoadedCS(p, pub, sec) ==
    /\ ~p.fail /\ ~p.exit
    /\ Alg(p.hdr) = OLDENCALG
    /\ p.hdrsize = oldencmsgsize
    /\ ~pub.exit /\ ~pub.null
    /\ ~sec.exit /\ ~sec.null

\* C21: decrypt goes on to the encalg check and to the box of a CS envelope
\* only when the envelope's randomids are those of the two keys in one of
\* the two orderings; every other pair ends in the key mismatch.
C21_EitherOrderingOnly ==
    (last.op = "decrypt" /\ fs["enc"].exists) =>
        \A p \in {parseencfile(fs["enc"].data)} :
        \A pub \in {IF p.fail \/ p.exit THEN NoKey
                    ELSE reop_getpubkey(fs, last.pubkeyfile, p.ident)},
           sec \in {reop_getseckey(fs, "seckey", NULL, last.env, last.tty)} :
            LoadedCS(p, pub, sec) =>
                /\ PastIds => EitherOrdering(p.hdr, pub.key, sec.key)
                /\ ~EitherOrdering(p.hdr, pub.key, sec.key) => last.stage = "mismatch"

(* ================== dispatch on the header tag: C22 =================== *)

\* the header decrypt() found in the file: a known tag and the size of the
\* variant of that tag
OwnSize(p) ==
    /\ ~p.fail /\ ~p.exit
    /\ p.hdrsize >= 2
    /\ Alg(p.hdr) \in Variants
    /\ p.hdrsize = HdrSize(Alg(p.hdr))

\* C22: decrypt goes past the parsing of the file only with a header whose
\* tag is one of SP, eC, CS, eS and whose length is the size of that
\* variant (64, 130, 58, 82); a header of any other length, one of fewer
\* than two bytes included, or with another tag ends in the invalid message
\* error, whatever the key files and the terminal are, with no output
\* opened.
C22_DispatchBySize ==
    (last.op = "decrypt" /\ fs["enc"].exists) =>
        \A p \in {parseencfile(fs["enc"].data)} :
            /\ last.stage # "parse" => OwnSize(p)
            /\ ~OwnSize(p) => (last.stage = "parse" /\ last.exit /\ ~last.opened)
            /\ art.kind = "forged" => ~OwnSize(p)

\* an armored header of one byte, a tag on the stack, no key files
C22_Witness ==
    /\ last.op = "decrypt"
    /\ art.kind = "forged"
    /\ ~art.binary
    /\ art.len = 1
    /\ last.hdralg = ENCALG
    /\ ~fs["seckey"].exists
    /\ last.stage = "parse"

(* ================ the binary parser stays inside: C23 ================= *)

\* the length the file declares is that of an identity that fits ident[]
\* and the file
Declared(b, room) == ~U32AtLeast(b, IDENTLEN) /\ b[4] <= room

\* C23: on a file of at least six bytes that begins with the magic, the
\* binary branch of decrypt looks at no byte beyond the last, and either
\* rejects the file or takes the header (of the size of its tag), the four
\* bytes of the length, the identity and the ciphertext from consecutive
\* places that end where the file ends; a declared length of 64 or more,
\* or of more than is left, is rejected, and an identity taken is at most
\* 63 bytes with a NUL after it in ident[].
C23_ParserStaysInside ==
    last.op = "parsebinary" =>
        LET in == last.encdata
            n == Len(last.encdata)
            r == last.r
            h == HdrSize(last.alg)
        IN  /\ r.read <= n
            /\ ~r.fail <=>
                   /\ h # -1
                   /\ 4 + h + 4 <= n
                   /\ Declared(SubSeq(in, 4 + h + 1, 4 + h + 4), n - (4 + h + 4))
            /\ ~r.fail =>
                   /\ r.hdrsize = h
                   /\ r.identlen \in 0..(IDENTLEN - 1)
                   /\ SubSeq(in, 4 + h + 1, 4 + h + 4) = <<0, 0, 0, r.identlen>>
                   /\ 4 + h + 4 + r.identlen + r.msglen = n
                   /\ r.msglen >= 0
                   /\ SubSeq(in, 1, 4) \o r.hdr
                          \o SubSeq(in, 4 + h + 1, 4 + h + 4)
                          \o SubSeq(r.ident, 1, r.identlen) \o r.msg = in
                   /\ Len(r.hdr) = h /\ Len(r.msg) = r.msglen
                   /\ Len(r.ident) = IDENTLEN
                   /\ r.ident[r.identlen + 1] = NUL

\* an identity of 63 bytes and a ciphertext of one
C23_Witness ==
    /\ last.op = "parsebinary"
    /\ ~last.r.fail
    /\ last.alg = ENCALG
    /\ last.r.identlen = IDENTLEN - 1
    /\ last.r.msglen = 1

(* =================== the buffer of readall: C24 ======================= *)

\* C24: while readall is in its loop the block it has allocated is
\* msglen + space + 1 bytes long, whether it comes from the first malloc,
\* from a read or from a doubling realloc, and no read has written beyond
\* it; a successful return has put the terminator inside the block, closed
\* the descriptor and handed out the block and its length; a failed return
\* leaves no block allocated, no descriptor open, and the caller with NULL
\* and length 0.
C24_BufferInvariant ==
    /\ pc = "readall" =>
           /\ art.alloc = art.msglen + art.space + 1
           /\ art.wrote <= art.msglen
           /\ art.msglen + art.space < art.alloc
           /\ art.space >= 0
    /\ last.op = "readall_ret" =>
           /\ last.rv = 0 =>
                  /\ last.nulat \in 0..(last.alloc - 1)
                  /\ last.nulat = last.msglenp
                  /\ last.msgp = "msg" /\ last.block = "held"
                  /\ last.fd = "closed"
           /\ last.rv # 0 =>
                  /\ last.msgp = "NULL" /\ last.msglenp = 0
                  /\ last.block \in {"none", "freed"}
                  /\ last.fd \in {"none", "closed"}
                  /\ last.fd = "none" <=> last.rv = -1

\* a pipe read to its end into a buffer that was doubled three times
C24_Witness ==
    /\ last.op = "readall_ret"
    /\ last.rv = 0
    /\ last.msglenp = 4 * PipeSpace + 3
    /\ last.alloc = 8 * PipeSpace + 1

(* ============ zero rounds in a symmetric envelope: C25 ================ *)

\* C25: given a header whose kdfrounds is 0, reop_symdecrypt returns
\* without ending the process, has used the key of all zero bytes and has
\* looked at no passphrase argument, environment or terminal; with any
\* other passphrase argument, environment and terminal it returns the same
\* value and leaves the same bytes in the buffer, which are the message
\* exactly when header and body were made under the zero key and are whole.
C25_ZeroRoundsNoPassphrase ==
    last.op = "symdecrypt_zero" =>
        /\ ~last.exit
        /\ last.kdf.key = ZeroKey
        /\ last.kdf.consulted = {}
        /\ ~last.kdf.bcrypt
        /\ \A password \in PassArgs, env \in EnvValues, tty \in TtyValues :
              \A r \in {reop_symdecrypt(last.symmsg, password, last.given, env, tty)} :
                  /\ r.exit = last.exit
                  /\ r.rv = last.rv
                  /\ r.msg = last.msg
                  /\ r.kdf = last.kdf
        /\ last.rv = REOP_D_OK <=> (last.crafted /\ last.damage = "none")
        /\ last.rv = REOP_D_OK => last.msg = last.sent
        /\ last.rv # REOP_D_OK => last.rv = REOP_D_FAIL

\* a body made under the zero key, opened with no terminal and with a
\* passphrase in the environment
C25_Witness ==
    /\ last.op = "symdecrypt_zero"
    /\ last.crafted
    /\ last.rv = REOP_D_OK
    /\ Len(last.sent) > 0
    /\ last.tty = NoTTY
    /\ last.env = Str(PW2)
    /\ last.password = NULL

====
